---- MODULE Spec2Model ----
(***************************************************************************)
(* Farmer-record service (PLANTAS API): identifier normalisation, entity   *)
(* construction, the create / update / delete request flows and the two    *)
(* SQL repository adapters, modelled as a state machine.                   *)
(*                                                                         *)
(* A Python str is modelled as a sequence of one-character strings.        *)
(***************************************************************************)
EXTENDS Integers, Sequences, FiniteSets, TLC

\* ------------------------------------------------------------------------
\* Characters and the str methods the code uses
\* ------------------------------------------------------------------------

AsciiDigits == {"0", "1", "2", "3", "4", "5", "6", "7", "8", "9"}

\* Characters outside 0-9 for which str.isdigit() is True.  "U+0663" stands
\* for ARABIC-INDIC DIGIT THREE (one character).
UnicodeDigits == {"U+0663"}

\* Characters str.strip() removes.
Whitespace == {" "}

\* str.isdigit(): non-empty and every character has the Unicode digit property.
isdigit(s) == Len(s) > 0 /\ \A i \in 1..Len(s) : s[i] \in AsciiDigits \cup UnicodeDigits

RECURSIVE lstrip(_)
lstrip(s) == IF Len(s) > 0 /\ Head(s) \in Whitespace THEN lstrip(Tail(s)) ELSE s

RECURSIVE rstrip(_)
rstrip(s) ==
    IF Len(s) > 0 /\ s[Len(s)] \in Whitespace THEN rstrip(SubSeq(s, 1, Len(s) - 1)) ELSE s

\* str.strip()
strip(s) == rstrip(lstrip(s))

\* str.replace(c, ""): every occurrence of the character c removed.
RemoveChar(s, c) == SelectSeq(s, LAMBDA x : x # c)

\* ------------------------------------------------------------------------
\* Outcomes of the two identifier validators
\* ------------------------------------------------------------------------

\* Length an identifier must have after cleaning.
DniLen == 8

NoStr == <<>>

Returned(v) == [exc |-> "none", value |-> v, dni |-> NoStr, reason |-> "none"]

InvalidDNIException(dni, reason) ==
    [exc |-> "InvalidDNIException", value |-> NoStr, dni |-> dni, reason |-> reason]

ValueError(reason) == [exc |-> "ValueError", value |-> NoStr, dni |-> NoStr, reason |-> reason]

NotComputed == [exc |-> "pending", value |-> NoStr, dni |-> NoStr, reason |-> "none"]

\* AgricultorService._validar_y_limpiar_dni
validar_y_limpiar_dni(dni) ==
    IF Len(dni) = 0
    THEN InvalidDNIException(dni, "vacio")
    ELSE LET dni_limpio == RemoveChar(RemoveChar(strip(dni), "-"), ".")
         IN  IF Len(dni_limpio) # DniLen
             THEN InvalidDNIException(dni, "longitud")
             ELSE IF ~isdigit(dni_limpio)
                  THEN InvalidDNIException(dni, "no numerico")
                  ELSE Returned(dni_limpio)

\* Agricultor._validate_dni: the value self.dni is left with, or the ValueError.
validate_dni(dni) ==
    IF Len(dni) = 0 \/ Len(strip(dni)) = 0
    THEN ValueError("vacio")
    ELSE LET dni_clean == strip(dni)
         IN  IF Len(dni_clean) # DniLen
             THEN ValueError("longitud")
             ELSE IF ~isdigit(dni_clean)
                  THEN ValueError("no numerico")
                  ELSE Returned(dni_clean)

\* ------------------------------------------------------------------------
\* Records (entity Agricultor, and the rows of table agricultores)
\* ------------------------------------------------------------------------

\* Optional[...] values.
None == <<>>
Some(x) == <<x>>

\* float values: a number, or NaN (json.loads reads the literal NaN).
Float(x) == [nan |-> FALSE, num |-> x]
NaN == [nan |-> TRUE, num |-> 0]

\* f < k on floats: every comparison with NaN is False.
Lt(f, k) == ~f.nan /\ f.num < k

\* f > k on floats.
Gt(f, k) == ~f.nan /\ f.num > k

\* Fields a record keeps: the identifier, the required fields, the two
\* numeric fields the validator reads, and pais, one of the columns only the
\* MySQL adapter reads and writes.
Fields ==
    {"dni", "fecha_censo", "apellidos", "nombres", "nombre_completo", "sexo", "dpto",
     "provincia", "distrito", "total_ha_sembrada", "productividad_x_ha", "pais"}

Entity(dni, d) == [c \in Fields |-> IF c = "dni" THEN dni ELSE d[c]]

NoRec == [absent |-> TRUE]

\* Agricultor.__post_init__ on a record built with identifier text dni: the
\* constructed record (dni replaced by the stripped text), or NoRec when
\* _validate_dni raises ValueError.
Agricultor(dni, d) ==
    LET v == validate_dni(dni)
    IN  IF v.exc = "none" THEN Entity(v.value, d) ELSE NoRec

\* Outcome of a validation or of a request.
Ok(ret) == [exc |-> "none", field |-> "none", ret |-> ret]
Raise(exc, field) == [exc |-> exc, field |-> field, ret |-> NoRec]
Pending == [exc |-> "pending", field |-> "none", ret |-> NoRec]

\* Python truthiness of str / not blank after strip.
Blank(s) == Len(s) = 0 \/ Len(strip(s)) = 0

\* AgricultorService.validar_datos_agricultor: first violated rule.
validar_datos_agricultor(a) ==
    IF Blank(a.nombre_completo)
    THEN Raise("AgricultorValidationException", "nombre_completo")
    ELSE IF Blank(a.dpto)
    THEN Raise("AgricultorValidationException", "dpto")
    ELSE IF a.total_ha_sembrada # None /\ Lt(a.total_ha_sembrada[1], 0)
    THEN Raise("AgricultorValidationException", "total_ha_sembrada")
    ELSE IF a.productividad_x_ha # None /\ Lt(a.productividad_x_ha[1], 0)
    THEN Raise("AgricultorValidationException", "productividad_x_ha")
    ELSE Ok(NoRec)

\* ------------------------------------------------------------------------
\* Table agricultores and the SQL statements the adapters issue
\* ------------------------------------------------------------------------

\* SELECT ... WHERE dni = %s
SelectByDni(table, dni) == {row \in table : row.dni = dni}

\* The table's unique key on dni (the key ON DUPLICATE KEY UPDATE relies on).
DuplicateKey(table, row) == SelectByDni(table, row.dni) # {}

\* Columns each adapter's INSERT / UPDATE / _map_to_entity lists.
Columns(ad) == IF ad = "mysql" THEN Fields ELSE Fields \ {"pais"}

AllColumns == Columns("mysql")

\* Row written by the adapter's INSERT: unlisted columns get NULL.
InsertRow(ad, a) == [c \in AllColumns |-> IF c \in Columns(ad) THEN a[c] ELSE None]

\* Row after the adapter's UPDATE ... SET: unlisted columns keep their value.
SetRow(ad, row, a) ==
    [c \in AllColumns |-> IF c \in Columns(ad) \ {"dni"} THEN a[c] ELSE row[c]]

\* UPDATE ... WHERE dni = a.dni
UpdateTable(ad, table, a) ==
    {IF row.dni = a.dni THEN SetRow(ad, row, a) ELSE row : row \in table}

\* cursor.rowcount after the MySQL UPDATE: the pool is created without the
\* FOUND_ROWS client flag, so it counts the rows whose values changed.
rowcount(table, a) ==
    Cardinality({row \in SelectByDni(table, a.dni) : SetRow("mysql", row, a) # row})

\* DELETE FROM agricultores WHERE dni = %s
DeleteTable(table, dni) == table \ SelectByDni(table, dni)

\* _map_to_entity: the columns the adapter reads; the others take the
\* dataclass default.
map_to_entity(ad, row) == [c \in AllColumns |-> IF c \in Columns(ad) THEN row[c] ELSE None]

\* find_by_dni: the set holding the entity found (empty for None).
find_by_dni(ad, table, dni) == {map_to_entity(ad, row) : row \in SelectByDni(table, dni)}

\* exists_by_dni
exists_by_dni(table, dni) == SelectByDni(table, dni) # {}

\* ------------------------------------------------------------------------
\* Inputs
\* ------------------------------------------------------------------------

\* Request slots: the handlers in flight at one time.
Reqs == {"r1", "r2"}

\* Requests started in one run.
MaxCalls == 2

Dni1 == <<"1", "2", "3", "4", "5", "6", "7", "8">>
Dni1Sep == <<"1", "2", "-", "3", "4", "5", ".", "6", "7", "8">>
Dni2 == <<" ", "8", "7", "6", "5", "4", "3", "2", "1">>
DniLetter == <<"1", "2", "3", "4", "5", "6", "7", "A">>
DniArabic == <<"U+0663", "2", "3", "4", "5", "6", "7", "8">>
Dni7 == <<"1", "2", "3", "4", "5", "6", "7">>

\* Identifier texts a caller sends in the path.
PathIds == {Dni1, Dni1Sep, DniLetter}

\* Identifier texts a caller of the Read use case sends.
ReadIds == PathIds \cup {DniArabic}

Ana == <<"A", "n", "a">>
Eva == <<"E", "v", "a">>
Ica == <<"I", "c", "a">>
Paz == <<"P", "a", "z">>
Rey == <<"R", "e", "y">>

\* Field values a caller sends: two valid payloads, and one that violates
\* the first and the third rule of the validator.
DatosA ==
    [fecha_censo |-> 2, apellidos |-> Paz, nombres |-> Ana, nombre_completo |-> Ana,
     sexo |-> <<"F">>, dpto |-> Ica, provincia |-> Ica, distrito |-> Ica,
     total_ha_sembrada |-> Some(Float(5)), productividad_x_ha |-> None, pais |-> Some("PE")]
DatosB ==
    [fecha_censo |-> 1, apellidos |-> Rey, nombres |-> Eva, nombre_completo |-> Eva,
     sexo |-> <<"F">>, dpto |-> Ica, provincia |-> Ica, distrito |-> Ica,
     total_ha_sembrada |-> None, productividad_x_ha |-> Some(Float(0)), pais |-> None]
DatosX ==
    [fecha_censo |-> 1, apellidos |-> Rey, nombres |-> Eva, nombre_completo |-> <<" ">>,
     sexo |-> <<"F">>, dpto |-> Ica, provincia |-> Ica, distrito |-> Ica,
     total_ha_sembrada |-> Some(Float(0 - 1)), productividad_x_ha |-> None, pais |-> None]

\* A payload with blank surname and empty sex: the dataclass checks neither.
DatosS ==
    [fecha_censo |-> 1, apellidos |-> <<" ">>, nombres |-> Eva, nombre_completo |-> Eva,
     sexo |-> <<>>, dpto |-> Ica, provincia |-> Ica, distrito |-> Ica,
     total_ha_sembrada |-> None, productividad_x_ha |-> None, pais |-> None]

\* The records a caller constructs: Agricultor(...) on a body, kept when the
\* constructor does not raise.
Bodies ==
    { <<Dni1, DatosA>>, <<Dni1, DatosB>>, <<Dni1, DatosX>>, <<Dni1Sep, DatosA>>,
      <<Dni2, DatosA>>, <<Dni2, DatosB>>, <<DniArabic, DatosB>> }
Entities == {Agricultor(b[1], b[2]) : b \in Bodies} \ {NoRec}

\* Request bodies of the API: a valid one, one with blank required fields,
\* one whose identifier has 7 digits, one whose identifier has separators.
ApiBodies == { <<Dni1, DatosA>>, <<Dni2, DatosS>>, <<Dni7, DatosA>>, <<Dni1Sep, DatosA>> }
ApiEntities == {Agricultor(b[1], b[2]) : b \in ApiBodies} \ {NoRec}

Adapters == {"mysql", "postgresql"}

\* Tables the process can find at start: rows the adapter wrote earlier.
InitialTables(ad) ==
    { {},
      {InsertRow(ad, Agricultor(Dni1, DatosA))},
      {InsertRow(ad, Agricultor(Dni1, DatosA)), InsertRow(ad, Agricultor(Dni2, DatosB))} }

\* ------------------------------------------------------------------------
\* State
\* ------------------------------------------------------------------------

VARIABLES
    adapter,     \* the repository adapter the process is configured with
    store,       \* table agricultores: a set of rows
    pc,          \* per request: the await point the handler is suspended at
    op,          \* per request: "crear", "actualizar", "eliminar" or "none"
    path,        \* per request: identifier text of the path (dni argument)
    body,        \* per request: the record argument as the caller passed it (history)
    rec,         \* per request: the record argument (agricultor), as the handler has it now
    dni_limpio,  \* per request: local dni_limpio
    result,      \* per request: what the handler returned or raised
    repo,        \* per request: what the last repository write call returned or raised
    invoked,     \* per request: the repository methods the call has invoked (history)
    pre,         \* per request: the table when the call started (history)
    solo,        \* per request: no other call was in flight during this call (history)
    ov,          \* per request: the slots whose current call overlapped this call (history)
    calls,       \* requests started so far
    raw,         \* identifier text under test (normaliser specification)
    svc,         \* outcome of the service normaliser on raw
    ent,         \* outcome of the entity validator on raw
    limit,       \* find_all: argument limit
    offset,      \* find_all: argument offset
    listed,      \* find_all: what the successive calls returned
    cop,         \* connection use: the operation under way ("none" when there is none)
    cpc,         \* connection use: the await the operation is at
    carg,        \* connection use: the operation's argument (a record, or a record holding the dni)
    conn,        \* connection use: local variable connection
    used,        \* connection use: connections checked out of the pool (pool._used)
    txn,         \* connection use: the table as the open transaction sees it
    cres,        \* connection use: how the operation ended
    chist,       \* connection use: history (table and used before the call, releases)
    vrec,        \* validator: the record under test
    vres,        \* validator: outcome of validar_datos_agricultor on vrec
    edad,        \* age check: the value of field edad of the record being constructed
    built,       \* age check: outcome of _validate_age ("pending", "ok", "ValueError")
    rcall,       \* port call: the last call made (name, argument, calls so far)
    rpre,        \* port call: the table of each adapter before the last call (history)
    my,          \* port call: MySQL adapter, its table and what the last call returned
    pg,          \* port call: PostgreSQL adapter, its table and what the last call returned
    ag,          \* derived properties: the fields of one Agricultor object they read
    leido,       \* derived properties: the last property read and the value it gave
    gpool,       \* pool singleton: global _connection_pool (0 for None, else the pool)
    pools,       \* pool singleton: the state of every pool created
    lock,        \* pool singleton: the caller holding _pool_lock ("none" when free)
    gpc,         \* pool singleton: per get_db_pool caller, the await it is at
    got,         \* pool singleton: per caller, what its last get_db_pool call returned (history)
    kpc,         \* pool singleton: the await close_db_pool is at
    kpool,       \* pool singleton: the pool close_db_pool is waiting on
    gcalls,      \* pool singleton: get_db_pool and close_db_pool calls started so far
    pfree,       \* pooled connections: connections of the pool that are free
    okind,       \* pooled connections: per task, the repository operation it runs
    opc,         \* pooled connections: per task, the await its operation is at
    oheld,       \* pooled connections: per task, the connections it holds
    ostarted     \* pooled connections: repository operations started so far

reqvars ==
    <<adapter, store, pc, op, path, body, rec, dni_limpio, result, repo, invoked, pre, solo, ov,
      calls>>
normvars == <<raw, svc, ent>>
listvars == <<limit, offset, listed>>
connvars == <<cop, cpc, carg, conn, used, txn, cres, chist>>
validvars == <<vrec, vres>>
agevars == <<edad, built>>
repovars == <<rcall, rpre, my, pg>>
entvars == <<ag, leido>>
poolvars == <<gpool, pools, lock, gpc, got, kpc, kpool, gcalls>>
acqvars == <<pfree, okind, opc, oheld, ostarted>>
slotvars == <<pc, op, path, body, rec, dni_limpio, result, repo, invoked, pre, solo, ov, calls>>
vars ==
    <<adapter, store, pc, op, path, body, rec, dni_limpio, result, repo, invoked, pre, solo, ov,
      calls, raw, svc, ent, limit, offset, listed, cop, cpc, carg, conn, used, txn, cres, chist,
      vrec, vres, edad, built,
      rcall, rpre, my, pg,
      ag, leido,
      gpool, pools, lock, gpc, got, kpc, kpool, gcalls,
      pfree, okind, opc, oheld, ostarted>>

\* What the request handlers leave alone.
auxvars == <<normvars, listvars, connvars, validvars, agevars, repovars, entvars, poolvars, acqvars>>

InFlight(r) == pc[r] \notin {"idle", "done"}

SlotsIdle ==
    /\ pc = [r \in Reqs |-> "idle"]
    /\ op = [r \in Reqs |-> "none"]
    /\ path = [r \in Reqs |-> NoStr]
    /\ body = [r \in Reqs |-> NoRec]
    /\ rec = [r \in Reqs |-> NoRec]
    /\ dni_limpio = [r \in Reqs |-> NoStr]
    /\ result = [r \in Reqs |-> Pending]
    /\ repo = [r \in Reqs |-> "none"]
    /\ invoked = [r \in Reqs |-> {}]
    /\ pre = [r \in Reqs |-> store]
    /\ solo = [r \in Reqs |-> TRUE]
    /\ ov = [r \in Reqs |-> {}]
    /\ calls = 0

NormIdle ==
    /\ raw = NoStr
    /\ svc = NotComputed
    /\ ent = NotComputed

ListIdle ==
    /\ limit = 0
    /\ offset = 0
    /\ listed = <<>>

\* connection = None
NoConn == [held |-> FALSE, closed |-> FALSE, in_trans |-> FALSE]

NoHist == [store |-> {}, used |-> 0, releases |-> 0]

ValidIdle ==
    /\ vrec = NoRec
    /\ vres = Pending

AgeIdle ==
    /\ edad = [kind |-> "none"]
    /\ built = "pending"

RepoIdle ==
    /\ rcall = [name |-> "none", n |-> 0]
    /\ rpre = [my |-> {}, pg |-> {}]
    /\ my = [table |-> {}, ret |-> [exc |-> "pending"]]
    /\ pg = [table |-> {}, ret |-> [exc |-> "pending"]]

EntIdle ==
    /\ ag = NoRec
    /\ leido = [prop |-> "none"]

PoolIdle ==
    /\ gpool = 0
    /\ pools = <<>>
    /\ lock = "none"
    /\ gpc = [c \in {} |-> "idle"]
    /\ got = [c \in {} |-> 0]
    /\ kpc = "idle"
    /\ kpool = 0
    /\ gcalls = 0

AcqIdle ==
    /\ pfree = 0
    /\ okind = [t \in {} |-> "none"]
    /\ opc = [t \in {} |-> "idle"]
    /\ oheld = [t \in {} |-> 0]
    /\ ostarted = 0

ConnIdle ==
    /\ cop = "none"
    /\ cpc = "idle"
    /\ carg = NoRec
    /\ conn = NoConn
    /\ used = 0
    /\ txn = {}
    /\ cres = "pending"
    /\ chist = NoHist

Init ==
    /\ adapter \in Adapters
    /\ store \in InitialTables(adapter)
    /\ SlotsIdle
    /\ AcqIdle
    /\ PoolIdle
    /\ EntIdle
    /\ RepoIdle
    /\ NormIdle
    /\ ListIdle
    /\ ConnIdle
    /\ ValidIdle
    /\ AgeIdle

\* A handler is entered in slot r: the call's arguments and the history.
Enter(r, o, p, a) ==
    /\ ~InFlight(r)
    /\ r = "r1" \/ InFlight("r1")
    /\ calls < MaxCalls
    /\ calls' = calls + 1
    /\ op' = [op EXCEPT ![r] = o]
    /\ path' = [path EXCEPT ![r] = p]
    /\ body' = [body EXCEPT ![r] = a]
    /\ repo' = [repo EXCEPT ![r] = "none"]
    /\ invoked' = [invoked EXCEPT ![r] = {}]
    /\ pre' = [pre EXCEPT ![r] = store]
    /\ solo' = [x \in Reqs |->
                  IF x = r THEN \A y \in Reqs \ {r} : ~InFlight(y)
                  ELSE IF InFlight(x) THEN FALSE ELSE solo[x]]
    /\ ov' = [x \in Reqs |->
                IF x = r THEN {y \in Reqs \ {r} : InFlight(y)}
                ELSE IF InFlight(x) THEN ov[x] \cup {r} ELSE ov[x] \ {r}]
    /\ UNCHANGED <<adapter, store>>

\* The handler of slot r ends with outcome res.
Finish(r, res) ==
    /\ pc' = [pc EXCEPT ![r] = "done"]
    /\ result' = [result EXCEPT ![r] = res]

\* The handler of slot r suspends at await point l.
Goto(r, l) ==
    /\ pc' = [pc EXCEPT ![r] = l]
    /\ UNCHANGED result

history == <<body, pre, solo, ov, calls>>

\* The call of slot r invokes the repository methods ms.
Invoke(r, ms) == invoked' = [invoked EXCEPT ![r] = @ \cup ms]

\* ------------------------------------------------------------------------
\* Repository write operations: outcome and table after the statement
\* ------------------------------------------------------------------------

Wrote(exc, table) == [exc |-> exc, table |-> table]

\* MySQLAgricultorRepository.create: INSERT, commit; any error is rolled back
\* and re-raised as DatabaseConnectionException.
mysql_create(table, a) ==
    IF DuplicateKey(table, a)
    THEN Wrote("DatabaseConnectionException", table)
    ELSE Wrote("none", table \cup {InsertRow("mysql", a)})

\* MySQLAgricultorRepository.update: UPDATE; rowcount 0 is rolled back and
\* raised as AgricultorNotFoundException, otherwise commit.
mysql_update(table, a) ==
    IF rowcount(table, a) = 0
    THEN Wrote("AgricultorNotFoundException", table)
    ELSE Wrote("none", UpdateTable("mysql", table, a))

\* PostgreSQLAgricultorRepository.save: INSERT; a PostgresError (the unique
\* violation) is re-raised as RepositoryException.
postgresql_save(table, a) ==
    IF DuplicateKey(table, a)
    THEN Wrote("RepositoryException", table)
    ELSE Wrote("none", table \cup {InsertRow("postgresql", a)})

\* PostgreSQLAgricultorRepository.update, the UPDATE statement after the
\* existence check: the record is returned whatever the statement matched.
postgresql_update(table, a) == Wrote("none", UpdateTable("postgresql", table, a))

\* ------------------------------------------------------------------------
\* Create: CrearAgricultorUseCase.execute
\* ------------------------------------------------------------------------

\* Controller crear_agricultor on a request body whose record is never built:
\* CrearAgricultorDTO.validate_dni refuses the body (the framework answers
\* with a request validation error), or dto_to_agricultor raises the
\* ValueError of Agricultor._validate_dni inside the handler's try block.
crear_agricultor(r, b) ==
    /\ ~isdigit(b[1]) \/ Agricultor(b[1], b[2]) = NoRec
    /\ Enter(r, "crear", b[1], NoRec)
    /\ rec' = [rec EXCEPT ![r] = NoRec]
    /\ dni_limpio' = [dni_limpio EXCEPT ![r] = NoStr]
    /\ pc' = [pc EXCEPT ![r] = "done"]
    /\ result' = [result EXCEPT ![r] =
                    IF ~isdigit(b[1]) THEN Raise("RequestValidationError", "dni")
                    ELSE Raise("ValueError", "dni")]
    /\ UNCHANGED auxvars

\* The status code the controller answers a handler outcome with: the except
\* clauses of crear_agricultor, actualizar_agricultor, eliminar_agricultor
\* and obtener_agricultor, in their order.
HttpStatus(o, res) ==
    IF res.exc = "none"
    THEN CASE o = "crear" -> 201 [] o = "eliminar" -> 204 [] OTHER -> 200
    ELSE IF res.exc = "RequestValidationError" THEN 422
    ELSE IF res.exc = "AgricultorNotFoundException" /\ o # "crear" THEN 404
    ELSE IF res.exc = "InvalidDNIException" THEN 400
    ELSE IF res.exc = "AgricultorValidationException" /\ o \in {"crear", "actualizar"} THEN 400
    ELSE 500

\* Entry up to the first await: validar_datos_agricultor.
CrearExecute(r, a) ==
    /\ Enter(r, "crear", NoStr, a)
    /\ rec' = [rec EXCEPT ![r] = a]
    /\ dni_limpio' = [dni_limpio EXCEPT ![r] = NoStr]
    /\ LET v == validar_datos_agricultor(a)
       IN  IF v.exc # "none"
           THEN /\ pc' = [pc EXCEPT ![r] = "done"]
                /\ result' = [result EXCEPT ![r] = v]
           ELSE /\ pc' = [pc EXCEPT ![r] = "crear_exists"]
                /\ result' = [result EXCEPT ![r] = Pending]
    /\ UNCHANGED auxvars

\* Mutant of CrearExists: the existence check never rejects.
CrearExistsNeverRejects(r) ==
    /\ pc[r] = "crear_exists"
    /\ Goto(r, IF adapter = "mysql" THEN "save_find" ELSE "save_insert")
    /\ Invoke(r, {"exists_by_dni"})
    /\ UNCHANGED <<adapter, store, op, path, rec, dni_limpio, repo, history, auxvars>>

\* await repository.exists_by_dni(agricultor.dni)
CrearExists(r) ==
    /\ pc[r] = "crear_exists"
    /\ IF exists_by_dni(store, rec[r].dni)
       THEN Finish(r, Raise("AgricultorValidationException", "dni"))
       ELSE Goto(r, IF adapter = "mysql" THEN "save_find" ELSE "save_insert")
    /\ Invoke(r, {"exists_by_dni"})
    /\ UNCHANGED <<adapter, store, op, path, rec, dni_limpio, repo, history, auxvars>>

\* MySQLAgricultorRepository.save: existing = await self.find_by_dni(...)
MySQLSaveFind(r) ==
    /\ pc[r] = "save_find"
    /\ Goto(r, IF find_by_dni("mysql", store, rec[r].dni) # {}
               THEN "save_update" ELSE "save_create")
    /\ Invoke(r, {"save", "find_by_dni"})
    /\ UNCHANGED <<adapter, store, op, path, rec, dni_limpio, repo, history, auxvars>>

\* The use case lets whatever save raises propagate, and returns what it returns.
CrearOutcome(exc, a) == IF exc = "none" THEN Ok(a) ELSE Raise(exc, "none")

\* MySQLAgricultorRepository.save: return await self.create(agricultor)
MySQLSaveCreate(r) ==
    /\ pc[r] = "save_create"
    /\ LET w == mysql_create(store, rec[r])
       IN  /\ store' = w.table
           /\ repo' = [repo EXCEPT ![r] = w.exc]
           /\ Finish(r, CrearOutcome(w.exc, rec[r]))
    /\ Invoke(r, {"create"})
    /\ UNCHANGED <<adapter, op, path, rec, dni_limpio, history, auxvars>>

\* MySQLAgricultorRepository.save: return await self.update(agricultor)
MySQLSaveUpdate(r) ==
    /\ pc[r] = "save_update"
    /\ LET w == mysql_update(store, rec[r])
       IN  /\ store' = w.table
           /\ repo' = [repo EXCEPT ![r] = w.exc]
           /\ Finish(r, CrearOutcome(w.exc, rec[r]))
    /\ Invoke(r, {"update"})
    /\ UNCHANGED <<adapter, op, path, rec, dni_limpio, history, auxvars>>

\* PostgreSQLAgricultorRepository.save
PostgreSQLSave(r) ==
    /\ pc[r] = "save_insert"
    /\ LET w == postgresql_save(store, rec[r])
       IN  /\ store' = w.table
           /\ repo' = [repo EXCEPT ![r] = w.exc]
           /\ Finish(r, CrearOutcome(w.exc, rec[r]))
    /\ Invoke(r, {"save"})
    /\ UNCHANGED <<adapter, op, path, rec, dni_limpio, history, auxvars>>

\* ------------------------------------------------------------------------
\* Update: ActualizarAgricultorUseCase.execute
\* ------------------------------------------------------------------------

\* Step 1, up to the first await: the path identifier is normalised.
ActualizarExecute(r, dni, a) ==
    /\ Enter(r, "actualizar", dni, a)
    /\ rec' = [rec EXCEPT ![r] = a]
    /\ LET n == validar_y_limpiar_dni(dni)
       IN  IF n.exc # "none"
           THEN /\ pc' = [pc EXCEPT ![r] = "done"]
                /\ result' = [result EXCEPT ![r] = Raise(n.exc, "none")]
                /\ dni_limpio' = [dni_limpio EXCEPT ![r] = NoStr]
           ELSE /\ pc' = [pc EXCEPT ![r] = "act_find"]
                /\ result' = [result EXCEPT ![r] = Pending]
                /\ dni_limpio' = [dni_limpio EXCEPT ![r] = n.value]
    /\ UNCHANGED auxvars

\* Mutant of OverrideDni: the payload's identifier is kept.
OverrideDniKeepsPayload(a, dni) == a

\* Step 3: the record's identifier is forced to the path's.
OverrideDni(a, dni) == IF a.dni # dni THEN [a EXCEPT !.dni = dni] ELSE a

\* Mutant of ActualizarFind: the payload is validated before the existence
\* check is looked at.
ActualizarFindValidatesFirst(r) ==
    /\ pc[r] = "act_find"
    /\ LET a == OverrideDni(rec[r], dni_limpio[r])
           v == validar_datos_agricultor(a)
       IN  /\ rec' = [rec EXCEPT ![r] = a]
           /\ IF v.exc # "none"
              THEN Finish(r, v)
              ELSE IF find_by_dni(adapter, store, dni_limpio[r]) = {}
                   THEN Finish(r, Raise("AgricultorNotFoundException", "none"))
                   ELSE Goto(r, IF adapter = "mysql" THEN "act_update" ELSE "act_update_exists")
    /\ Invoke(r, {"find_by_dni"})
    /\ UNCHANGED <<adapter, store, op, path, dni_limpio, repo, history, auxvars>>

\* Steps 2 to 4: await find_by_dni, then the override and the validation.
ActualizarFind(r) ==
    /\ pc[r] = "act_find"
    /\ IF find_by_dni(adapter, store, dni_limpio[r]) = {}
       THEN /\ Finish(r, Raise("AgricultorNotFoundException", "none"))
            /\ UNCHANGED rec
       ELSE LET a == OverrideDni(rec[r], dni_limpio[r])
                v == validar_datos_agricultor(a)
            IN  /\ rec' = [rec EXCEPT ![r] = a]
                /\ IF v.exc # "none"
                   THEN Finish(r, v)
                   ELSE Goto(r, IF adapter = "mysql" THEN "act_update" ELSE "act_update_exists")
    /\ Invoke(r, {"find_by_dni"})
    /\ UNCHANGED <<adapter, store, op, path, dni_limpio, repo, history, auxvars>>

\* Step 5: whatever repository.update raises is re-raised as
\* AgricultorValidationException("general", ...).
ActualizarOutcome(exc, a) ==
    IF exc = "none" THEN Ok(a) ELSE Raise("AgricultorValidationException", "general")

\* Step 5 on the MySQL adapter: await repository.update(...)
MySQLUpdate(r) ==
    /\ pc[r] = "act_update"
    /\ LET w == mysql_update(store, rec[r])
       IN  /\ store' = w.table
           /\ repo' = [repo EXCEPT ![r] = w.exc]
           /\ Finish(r, ActualizarOutcome(w.exc, rec[r]))
    /\ Invoke(r, {"update"})
    /\ UNCHANGED <<adapter, op, path, rec, dni_limpio, history, auxvars>>

\* PostgreSQLAgricultorRepository.update: exists = await self.exists_by_dni(...)
PostgreSQLUpdateExists(r) ==
    /\ pc[r] = "act_update_exists"
    /\ IF ~exists_by_dni(store, rec[r].dni)
       THEN /\ repo' = [repo EXCEPT ![r] = "AgricultorNotFoundException"]
            /\ Finish(r, ActualizarOutcome("AgricultorNotFoundException", rec[r]))
       ELSE /\ Goto(r, "act_update_execute")
            /\ UNCHANGED repo
    /\ Invoke(r, {"update", "exists_by_dni"})
    /\ UNCHANGED <<adapter, store, op, path, rec, dni_limpio, history, auxvars>>

\* PostgreSQLAgricultorRepository.update: await connection.execute(query, ...)
PostgreSQLUpdate(r) ==
    /\ pc[r] = "act_update_execute"
    /\ LET w == postgresql_update(store, rec[r])
       IN  /\ store' = w.table
           /\ repo' = [repo EXCEPT ![r] = w.exc]
           /\ Finish(r, ActualizarOutcome(w.exc, rec[r]))
    /\ Invoke(r, {"update"})
    /\ UNCHANGED <<adapter, op, path, rec, dni_limpio, history, auxvars>>

\* ------------------------------------------------------------------------
\* Delete: eliminar_agricultor
\* ------------------------------------------------------------------------

\* Entry up to the first await: the path identifier is normalised.
EliminarExecute(r, dni) ==
    /\ Enter(r, "eliminar", dni, NoRec)
    /\ rec' = [rec EXCEPT ![r] = NoRec]
    /\ LET n == validar_y_limpiar_dni(dni)
       IN  IF n.exc # "none"
           THEN /\ pc' = [pc EXCEPT ![r] = "done"]
                /\ result' = [result EXCEPT ![r] = Raise(n.exc, "none")]
                /\ dni_limpio' = [dni_limpio EXCEPT ![r] = NoStr]
           ELSE /\ pc' = [pc EXCEPT ![r] = "del_exists"]
                /\ result' = [result EXCEPT ![r] = Pending]
                /\ dni_limpio' = [dni_limpio EXCEPT ![r] = n.value]
    /\ UNCHANGED auxvars

\* exists = await repository.exists_by_dni(dni_limpio)
EliminarExists(r) ==
    /\ pc[r] = "del_exists"
    /\ IF ~exists_by_dni(store, dni_limpio[r])
       THEN Finish(r, Raise("AgricultorNotFoundException", "none"))
       ELSE Goto(r, "del_delete")
    /\ Invoke(r, {"exists_by_dni"})
    /\ UNCHANGED <<adapter, store, op, path, rec, dni_limpio, repo, history, auxvars>>

\* await repository.delete_by_dni(dni_limpio); the 204 response whatever it returns.
EliminarDelete(r) ==
    /\ pc[r] = "del_delete"
    /\ store' = DeleteTable(store, dni_limpio[r])
    /\ repo' = [repo EXCEPT ![r] = "none"]
    /\ Finish(r, Ok(NoRec))
    /\ Invoke(r, {"delete_by_dni"})
    /\ UNCHANGED <<adapter, op, path, rec, dni_limpio, history, auxvars>>

\* ------------------------------------------------------------------------
\* Read: ConsultarAgricultorPorDniUseCase.execute
\* ------------------------------------------------------------------------

\* Entry up to the first await: the identifier is normalised; the
\* InvalidDNIException of the normaliser is no ValueError and propagates.
ConsultarExecute(r, dni) ==
    /\ Enter(r, "consultar", dni, NoRec)
    /\ rec' = [rec EXCEPT ![r] = NoRec]
    /\ LET n == validar_y_limpiar_dni(dni)
       IN  IF n.exc # "none"
           THEN /\ pc' = [pc EXCEPT ![r] = "done"]
                /\ result' = [result EXCEPT ![r] = Raise(n.exc, "none")]
                /\ dni_limpio' = [dni_limpio EXCEPT ![r] = NoStr]
           ELSE /\ pc' = [pc EXCEPT ![r] = "con_find"]
                /\ result' = [result EXCEPT ![r] = Pending]
                /\ dni_limpio' = [dni_limpio EXCEPT ![r] = n.value]
    /\ UNCHANGED auxvars

\* agricultor = await self.repository.find_by_dni(dni_limpio)
ConsultarFind(r) ==
    /\ pc[r] = "con_find"
    /\ LET found == find_by_dni(adapter, store, dni_limpio[r])
       IN  IF found = {}
           THEN Finish(r, Raise("AgricultorNotFoundException", "none"))
           ELSE \E a \in found : Finish(r, Ok(a))
    /\ Invoke(r, {"find_by_dni"})
    /\ UNCHANGED <<adapter, store, op, path, rec, dni_limpio, repo, history, auxvars>>

\* ------------------------------------------------------------------------
\* Specification of the request flows
\* ------------------------------------------------------------------------

Next ==
    \E r \in Reqs :
        \/ \E a \in Entities : CrearExecute(r, a)
        \/ CrearExists(r)
        \/ MySQLSaveFind(r)
        \/ MySQLSaveCreate(r)
        \/ MySQLSaveUpdate(r)
        \/ PostgreSQLSave(r)
        \/ \E dni \in PathIds, a \in Entities : ActualizarExecute(r, dni, a)
        \/ ActualizarFind(r)
        \/ MySQLUpdate(r)
        \/ PostgreSQLUpdateExists(r)
        \/ PostgreSQLUpdate(r)
        \/ \E dni \in PathIds : EliminarExecute(r, dni)
        \/ EliminarExists(r)
        \/ EliminarDelete(r)

Spec == Init /\ [][Next]_vars

\* ------------------------------------------------------------------------
\* Specification of the API: the four kinds of request, from the controller
\* ------------------------------------------------------------------------

ApiNext ==
    \E r \in Reqs :
        \/ \E b \in ApiBodies : crear_agricultor(r, b)
        \/ \E a \in ApiEntities : CrearExecute(r, a)
        \/ CrearExists(r)
        \/ MySQLSaveFind(r)
        \/ MySQLSaveCreate(r)
        \/ MySQLSaveUpdate(r)
        \/ PostgreSQLSave(r)
        \/ \E dni \in PathIds, a \in ApiEntities : ActualizarExecute(r, dni, a)
        \/ ActualizarFind(r)
        \/ MySQLUpdate(r)
        \/ PostgreSQLUpdateExists(r)
        \/ PostgreSQLUpdate(r)
        \/ \E dni \in PathIds : EliminarExecute(r, dni)
        \/ EliminarExists(r)
        \/ EliminarDelete(r)
        \/ \E dni \in ReadIds : ConsultarExecute(r, dni)
        \/ ConsultarFind(r)

SpecApi == Init /\ [][ApiNext]_vars

\* ------------------------------------------------------------------------
\* Specification of the two identifier validators on one identifier text
\* ------------------------------------------------------------------------

\* Longest run of digits in an identifier text under test.
MaxRun == 4

DigitChars == <<"1", "2", "3", "4", "5", "6", "7", "8", "9", "0">>

\* The digits number from + 1 .. from + k of 1234567890 1234...
Run(from, k) == [i \in 1..k |-> DigitChars[((from + i - 1) % 10) + 1]]

Pads == {<<>>, <<" ">>}
Seps == {<<>>, <<"-">>, <<".">>, <<" ">>, <<"A">>, <<"U+0663">>}

\* Identifier texts: three runs of digits, a character (or none) between
\* them, whitespace (or none) around them.
NormInputs ==
    { p1 \o Run(0, k1) \o s1 \o Run(k1, k2) \o s2 \o Run(k1 + k2, k3) \o p2 :
        p1 \in Pads, p2 \in Pads, s1 \in Seps, s2 \in Seps,
        k1 \in 0..MaxRun, k2 \in 0..MaxRun, k3 \in 0..MaxRun }

NormInit ==
    /\ adapter = "mysql"
    /\ store = {}
    /\ SlotsIdle
    /\ AcqIdle
    /\ PoolIdle
    /\ EntIdle
    /\ RepoIdle
    /\ raw \in NormInputs
    /\ svc = NotComputed
    /\ ent = NotComputed
    /\ ListIdle
    /\ ConnIdle
    /\ ValidIdle
    /\ AgeIdle

\* service._validar_y_limpiar_dni(raw)
ServiceNormalize ==
    /\ svc = NotComputed
    /\ svc' = validar_y_limpiar_dni(raw)
    /\ UNCHANGED <<raw, ent, reqvars, listvars, connvars, validvars, agevars, repovars, entvars, poolvars, acqvars>>

\* Agricultor(dni = raw, ...): __post_init__ runs _validate_dni
EntityValidate ==
    /\ ent = NotComputed
    /\ ent' = validate_dni(raw)
    /\ UNCHANGED <<raw, svc, reqvars, listvars, connvars, validvars, agevars, repovars, entvars, poolvars, acqvars>>

NormNext == ServiceNormalize \/ EntityValidate

SpecNorm == NormInit /\ [][NormNext]_vars

\* ------------------------------------------------------------------------
\* Specification of successive find_all calls on an unchanging table
\* ------------------------------------------------------------------------

\* Successive find_all calls in one run.
MaxLists == 2

\* Largest limit and offset a caller passes.
MaxLimit == 3
MaxOffset == 2

\* Characters in collation order.
Collation == <<" ", "A", "E", "F", "I", "P", "R", "a", "c", "e", "n", "v", "y", "z">>

CharRank(c) == CHOOSE i \in 1..Len(Collation) : Collation[i] = c

\* a sorts strictly before b.
RECURSIVE StrLess(_, _)
StrLess(a, b) ==
    IF Len(b) = 0 THEN FALSE
    ELSE IF Len(a) = 0 THEN TRUE
    ELSE IF Head(a) = Head(b) THEN StrLess(Tail(a), Tail(b))
    ELSE CharRank(Head(a)) < CharRank(Head(b))

\* The adapter's ORDER BY puts row x strictly before row y:
\* MySQL "ORDER BY fecha_censo DESC", PostgreSQL "ORDER BY apellidos, nombres".
OrderedBefore(ad, x, y) ==
    IF ad = "mysql"
    THEN x.fecha_censo > y.fecha_censo
    ELSE \/ StrLess(x.apellidos, y.apellidos)
         \/ x.apellidos = y.apellidos /\ StrLess(x.nombres, y.nombres)

\* The orders in which the statement may deliver the rows: every arrangement
\* of the table that respects ORDER BY (rows that tie on the sort key come in
\* any order).
Orderings(ad, table) ==
    LET n == Cardinality(table)
    IN  { f \in [1..n -> table] :
            /\ \A i \in 1..n, j \in 1..n : i # j => f[i] # f[j]
            /\ \A i \in 1..n, j \in 1..n : i < j => ~OrderedBefore(ad, f[j], f[i]) }

\* LIMIT l OFFSET o
Page(rows, l, o) ==
    LET first == o + 1
        last == IF o + l < Len(rows) THEN o + l ELSE Len(rows)
    IN  IF first > last THEN <<>> ELSE [i \in 1..(last - first + 1) |-> rows[first + i - 1]]

\* find_all(limit, offset): the sequences the call can return.
find_all(ad, table, l, o) ==
    { [i \in 1..Len(Page(f, l, o)) |-> map_to_entity(ad, Page(f, l, o)[i])] :
        f \in Orderings(ad, table) }

Dni3 == <<"1", "1", "1", "1", "1", "1", "1", "1">>

\* Tables find_all runs on: rows the adapter wrote earlier, among them two
\* farmers with the same names censused on the same day.
ListTables(ad) ==
    LET a1 == InsertRow(ad, Agricultor(Dni1, DatosA))
        a2 == InsertRow(ad, Agricultor(Dni2, DatosA))
        b3 == InsertRow(ad, Agricultor(Dni3, DatosB))
    IN  { {}, {a1}, {a1, b3}, {a1, a2}, {a1, a2, b3} }

ListInit ==
    /\ adapter \in Adapters
    /\ store \in ListTables(adapter)
    /\ SlotsIdle
    /\ AcqIdle
    /\ PoolIdle
    /\ EntIdle
    /\ RepoIdle
    /\ NormIdle
    /\ ConnIdle
    /\ ValidIdle
    /\ AgeIdle
    /\ limit \in 1..MaxLimit
    /\ offset \in 0..MaxOffset
    /\ listed = <<>>

\* One find_all(limit, offset) call; the table is not written.
FindAll ==
    /\ Len(listed) < MaxLists
    /\ \E page \in find_all(adapter, store, limit, offset) : listed' = Append(listed, page)
    /\ UNCHANGED <<limit, offset, reqvars, normvars, connvars, validvars, agevars, repovars, entvars, poolvars, acqvars>>

ListNext == FindAll

SpecList == ListInit /\ [][ListNext]_vars

\* ------------------------------------------------------------------------
\* Specification of one operation's use of a pooled connection (MySQL
\* adapter and get_db_connection), with store errors and cancellation
\* ------------------------------------------------------------------------

\* Connections other requests hold when the operation starts.
MaxUsed == 1

WriteOps == {"create", "update", "delete_by_dni"}
ReadOps == {"find_by_dni", "exists_by_dni"}
ConnOps == WriteOps \cup ReadOps \cup {"get_db_connection"}

\* Records the operations are called with (the reads and delete use the dni).
ConnArgs == {Agricultor(Dni1, DatosA), Agricultor(Dni1, DatosB), Agricultor(Dni2, DatosB)}

ConnInit ==
    /\ adapter = "mysql"
    /\ store \in InitialTables("mysql")
    /\ SlotsIdle
    /\ AcqIdle
    /\ PoolIdle
    /\ EntIdle
    /\ RepoIdle
    /\ NormIdle
    /\ ListIdle
    /\ ValidIdle
    /\ AgeIdle
    /\ cop = "none"
    /\ cpc = "idle"
    /\ carg = NoRec
    /\ conn = NoConn
    /\ used \in 0..MaxUsed
    /\ txn = store
    /\ cres = "pending"
    /\ chist = NoHist

\* The operation is called: connection = None, then the try block.
RepoCall(o, a) ==
    /\ cop = "none"
    /\ cop' = o
    /\ carg' = a
    /\ cpc' = "acquire"
    /\ chist' = [store |-> store, used |-> used, releases |-> 0]
    /\ UNCHANGED <<conn, used, txn, cres, store, adapter, slotvars, normvars, listvars, validvars, agevars, repovars, entvars, poolvars, acqvars>>

\* The exception is raised into the operation's except Exception block.
ToExcept == cpc' = "except" /\ UNCHANGED cres

\* The operation leaves the try block for the finally block, ending with res.
ToFinally(res) == cpc' = "finally" /\ cres' = res

\* connection = await self.pool.acquire(): a connection is checked out, or
\* the pool raises (no connection can be made), or the request is cancelled
\* while it waits; in the last two cases connection stays None.
PoolAcquire ==
    /\ cpc = "acquire"
    /\ \/ /\ conn' = [held |-> TRUE, closed |-> FALSE, in_trans |-> FALSE]
          /\ used' = used + 1
          /\ txn' = store
          /\ cpc' = IF cop = "find_by_dni" THEN "ping"
                    ELSE IF cop \in WriteOps THEN "begin" ELSE "execute"
          /\ UNCHANGED cres
       \/ /\ ToFinally("DatabaseConnectionException")
          /\ UNCHANGED <<conn, used, txn>>
       \/ /\ ToFinally("CancelledError")
          /\ UNCHANGED <<conn, used, txn>>
    /\ UNCHANGED <<cop, carg, chist, store, adapter, slotvars, normvars, listvars, validvars, agevars, repovars, entvars, poolvars, acqvars>>

\* find_by_dni: await connection.ensure_closed(); await connection.ping()
\* (the connection is closed and ping connects it again), or the server
\* cannot be reached, or the request is cancelled in between.
EnsureClosedPing ==
    /\ cpc = "ping"
    /\ \/ cpc' = "execute" /\ UNCHANGED <<conn, cres>>
       \/ ToExcept /\ conn' = [conn EXCEPT !.closed = TRUE]
       \/ ToFinally("CancelledError") /\ conn' = [conn EXCEPT !.closed = TRUE]
    /\ UNCHANGED <<cop, carg, used, txn, chist, store, adapter, slotvars, normvars, listvars, validvars, agevars, repovars, entvars, poolvars, acqvars>>

\* await connection.begin(), or the connection is lost, or the request is
\* cancelled.  conn.in_trans is the transaction status the client last read.
ConnectionBegin ==
    /\ cpc = "begin"
    /\ \/ cpc' = "execute" /\ conn' = [conn EXCEPT !.in_trans = TRUE] /\ UNCHANGED cres
       \/ ToExcept /\ conn' = [conn EXCEPT !.closed = TRUE]
       \/ ToFinally("CancelledError") /\ UNCHANGED conn
    /\ UNCHANGED <<cop, carg, used, txn, chist, store, adapter, slotvars, normvars, listvars, validvars, agevars, repovars, entvars, poolvars, acqvars>>

\* The operation's statement inside its transaction: the table the
\* transaction sees afterwards, and what the operation does next.
Statement(o, table, a) ==
    IF o = "create"
    THEN IF DuplicateKey(table, a)
         THEN [next |-> "except", table |-> table]
         ELSE [next |-> "commit", table |-> table \cup {InsertRow("mysql", a)}]
    ELSE IF o = "update"
    THEN IF rowcount(table, a) = 0
         THEN [next |-> "not_found", table |-> table]
         ELSE [next |-> "commit", table |-> UpdateTable("mysql", table, a)]
    ELSE IF o = "delete_by_dni"
    THEN [next |-> "commit", table |-> DeleteTable(table, a.dni)]
    ELSE [next |-> "return", table |-> table]

\* await cursor.execute(...) (and fetchone): the statement runs, or the
\* connection is lost, or the request is cancelled.  update with rowcount 0
\* rolls back and raises AgricultorNotFoundException.
CursorExecute ==
    /\ cpc = "execute"
    /\ LET st == Statement(cop, txn, carg)
       IN  \/ /\ st.next = "commit"
              /\ txn' = st.table
              /\ cpc' = "commit"
              /\ UNCHANGED <<conn, cres>>
           \/ /\ st.next = "except"
              /\ ToExcept
              /\ UNCHANGED <<conn, txn>>
           \/ /\ st.next = "not_found"
              /\ conn' = [conn EXCEPT !.in_trans = FALSE]
              /\ txn' = store
              /\ ToFinally("AgricultorNotFoundException")
           \/ /\ st.next = "return"
              /\ conn' = [conn EXCEPT !.in_trans = (cop \in ReadOps)]
              /\ ToFinally("return")
              /\ UNCHANGED txn
           \/ /\ ToExcept
              /\ conn' = [conn EXCEPT !.closed = TRUE]
              /\ UNCHANGED txn
           \/ /\ ToFinally("CancelledError")
              /\ UNCHANGED <<conn, txn>>
    /\ UNCHANGED <<cop, carg, used, chist, store, adapter, slotvars, normvars, listvars, validvars, agevars, repovars, entvars, poolvars, acqvars>>

\* await connection.commit(): COMMIT is sent and the operation waits for the
\* answer.  The answer arrives; or the connection is lost, or the request is
\* cancelled, while the operation waits, with the server having committed or
\* not.
ConnectionCommit ==
    /\ cpc = "commit"
    /\ \/ /\ store' = txn
          /\ conn' = [conn EXCEPT !.in_trans = FALSE]
          /\ ToFinally("return")
       \/ /\ store' \in {txn, store}
          /\ conn' = [conn EXCEPT !.closed = TRUE]
          /\ ToExcept
       \/ /\ store' \in {txn, store}
          /\ ToFinally("CancelledError")
          /\ UNCHANGED conn
    /\ UNCHANGED <<cop, carg, used, txn, chist, adapter, slotvars, normvars, listvars, validvars, agevars, repovars, entvars, poolvars, acqvars>>

\* except Exception: the write operations roll back when they have a
\* connection (a failing rollback is ignored); DatabaseConnectionException
\* is raised.  CancelledError is no Exception and does not come here.
ExceptHandler ==
    /\ cpc = "except"
    /\ IF cop \in WriteOps /\ conn.held /\ ~conn.closed
       THEN conn' = [conn EXCEPT !.in_trans = FALSE] /\ txn' = store
       ELSE UNCHANGED <<conn, txn>>
    /\ ToFinally("DatabaseConnectionException")
    /\ UNCHANGED <<cop, carg, used, chist, store, adapter, slotvars, normvars, listvars, validvars, agevars, repovars, entvars, poolvars, acqvars>>

\* pool.release(connection): the connection leaves pool._used; an open one
\* that is in a transaction is closed (the server rolls back), another open
\* one goes to the free list.
release(c) == IF ~c.closed /\ c.in_trans THEN [c EXCEPT !.closed = TRUE] ELSE c

\* finally: the repository methods release when connection is set;
\* get_db_connection releases when connection is set and not closed.
FinallyRelease ==
    /\ cpc = "finally"
    /\ IF conn.held /\ (cop = "get_db_connection" => ~conn.closed)
       THEN /\ used' = used - 1
            /\ chist' = [chist EXCEPT !.releases = @ + 1]
            /\ conn' = release(conn)
       ELSE UNCHANGED <<used, chist, conn>>
    /\ cpc' = "done"
    /\ UNCHANGED <<cop, carg, txn, cres, store, adapter, slotvars, normvars, listvars, validvars, agevars, repovars, entvars, poolvars, acqvars>>

ConnNext ==
    \/ \E o \in ConnOps, a \in ConnArgs : RepoCall(o, a)
    \/ PoolAcquire
    \/ EnsureClosedPing
    \/ ConnectionBegin
    \/ CursorExecute
    \/ ConnectionCommit
    \/ ExceptHandler
    \/ FinallyRelease

SpecConn == ConnInit /\ [][ConnNext]_vars

\* ------------------------------------------------------------------------
\* Specification of validar_datos_agricultor on one record
\* ------------------------------------------------------------------------

\* Largest number in a numeric field of a record under test.
MaxHa == 1

\* Values of nombre_completo and dpto: text, empty, blank.
TextValues == {Ana, <<>>, <<" ">>, <<" ", "A", " ">>}

\* Values of total_ha_sembrada and productividad_x_ha.
FloatValues == {None, Some(NaN)} \cup {Some(Float(x)) : x \in (0 - MaxHa)..MaxHa}

ValidInputs ==
    { [Entity(Dni1, DatosA) EXCEPT !.nombre_completo = n, !.dpto = d,
                                   !.total_ha_sembrada = t, !.productividad_x_ha = p] :
        n \in TextValues, d \in TextValues, t \in FloatValues, p \in FloatValues }

ValidInit ==
    /\ adapter = "mysql"
    /\ store = {}
    /\ SlotsIdle
    /\ AcqIdle
    /\ PoolIdle
    /\ EntIdle
    /\ RepoIdle
    /\ NormIdle
    /\ ListIdle
    /\ ConnIdle
    /\ AgeIdle
    /\ vrec \in ValidInputs
    /\ vres = Pending

\* service.validar_datos_agricultor(vrec)
ValidarDatos ==
    /\ vres = Pending
    /\ vres' = validar_datos_agricultor(vrec)
    /\ UNCHANGED <<vrec, reqvars, normvars, listvars, connvars, agevars, repovars, entvars, poolvars, acqvars>>

ValidNext == ValidarDatos

SpecValid == ValidInit /\ [][ValidNext]_vars

\* ------------------------------------------------------------------------
\* Specification of Agricultor._validate_age on one value of edad
\* ------------------------------------------------------------------------

\* Longest run of digits in an age text.
MaxAgeDigits == 3

\* Largest accepted age.
MaxEdad == 120

\* int(c) of one digit character.
DigitValue(c) ==
    CASE c = "0" -> 0 [] c = "1" -> 1 [] c = "2" -> 2 [] c = "3" -> 3 [] c = "4" -> 4
      [] c = "5" -> 5 [] c = "6" -> 6 [] c = "7" -> 7 [] c = "8" -> 8 [] c = "9" -> 9
      [] c = "U+0663" -> 3

\* int(s) of a text of digits.
RECURSIVE int(_)
int(s) == IF s = <<>> THEN 0 ELSE 10 * int(SubSeq(s, 1, Len(s) - 1)) + DigitValue(s[Len(s)])

\* Values of edad: absent, a text, a number.
NoEdad == [kind |-> "none"]
StrEdad(t) == [kind |-> "str", text |-> t]
NumEdad(f) == [kind |-> "num", num |-> f]

\* Agricultor._validate_age
_validate_age(e) ==
    IF e.kind = "none" THEN "ok"
    ELSE IF e.kind = "str" /\ isdigit(strip(e.text))
    THEN IF int(strip(e.text)) < 0 \/ int(strip(e.text)) > MaxEdad THEN "ValueError" ELSE "ok"
    ELSE IF e.kind = "str" /\ strip(e.text) # <<>>
    THEN "ok"
    ELSE IF e.kind = "num"
    THEN IF Lt(e.num, 0) \/ Gt(e.num, MaxEdad) THEN "ValueError" ELSE "ok"
    ELSE "ok"

AgeDigits == {"0", "1", "2", "5"}
DigitRuns == UNION {[1..n -> AgeDigits] : n \in 0..MaxAgeDigits}
Signs == {<<>>, <<"-">>}
FreeTexts == {<<"N", "/", "A">>, <<"5", "0", " ", "a">>}
AgeTexts == {p \o g \o d \o q : p \in Pads, g \in Signs, d \in DigitRuns, q \in Pads} \cup FreeTexts
AgeNumbers == {NaN} \cup {Float(x) : x \in {0 - 5, 0, 5, MaxEdad, MaxEdad + 1}}
AgeInputs == {NoEdad} \cup {StrEdad(t) : t \in AgeTexts} \cup {NumEdad(f) : f \in AgeNumbers}

AgeInit ==
    /\ adapter = "mysql"
    /\ store = {}
    /\ SlotsIdle
    /\ AcqIdle
    /\ PoolIdle
    /\ EntIdle
    /\ RepoIdle
    /\ NormIdle
    /\ ListIdle
    /\ ConnIdle
    /\ ValidIdle
    /\ edad \in AgeInputs
    /\ built = "pending"

\* Agricultor.__post_init__: self._validate_age()
ValidateAge ==
    /\ built = "pending"
    /\ built' = _validate_age(edad)
    /\ UNCHANGED <<edad, reqvars, normvars, listvars, connvars, validvars, repovars, entvars, poolvars, acqvars>>

AgeNext == ValidateAge

SpecAge == AgeInit /\ [][AgeNext]_vars

\* ------------------------------------------------------------------------
\* Specification of the repository port: a sequence of calls made to both
\* adapters, each on its own table, one call at a time
\* ------------------------------------------------------------------------

\* Port calls in one run.
MaxPortCalls == 2

\* LIMIT of find_by_location (1000 in the statement), scaled to the tables
\* of this specification.
LocationLimit == 2

\* The operations of the port AgricultorRepository.
PortOperations ==
    {"find_by_dni", "save", "update", "delete_by_dni", "find_all", "count_all",
     "find_by_location", "exists_by_dni"}

\* The operations each adapter class defines.
Provides(ad) ==
    IF ad = "mysql" THEN PortOperations ELSE PortOperations \ {"find_by_location"}

\* What a port call returns or raises.
Ret(v) == [exc |-> "none", val |-> v]
Exc(e) == [exc |-> e]
After(table, ret) == [table |-> table, ret |-> ret]

\* A write that returns the record it was given, or raises.
WroteRecord(w, a) == After(w.table, IF w.exc = "none" THEN Ret(a) ELSE Exc(w.exc))

\* MySQLAgricultorRepository.save: find_by_dni, then update or create.
mysql_save(table, a) ==
    IF find_by_dni("mysql", table, a.dni) # {}
    THEN mysql_update(table, a)
    ELSE mysql_create(table, a)

\* PostgreSQLAgricultorRepository.update: the existence check, then the UPDATE.
postgresql_update_checked(table, a) ==
    IF ~exists_by_dni(table, a.dni)
    THEN Wrote("AgricultorNotFoundException", table)
    ELSE postgresql_update(table, a)

\* delete_by_dni that reports a removal whatever the statement matched.
delete_by_dniAlwaysTrue(ad, table, dni) == After(DeleteTable(table, dni), Ret(TRUE))

\* delete_by_dni: DELETE ... WHERE dni = ...; MySQL returns cursor.rowcount > 0,
\* PostgreSQL returns "DELETE 0" not in result.
delete_by_dni(ad, table, dni) ==
    After(DeleteTable(table, dni), Ret(Cardinality(SelectByDni(table, dni)) > 0))

\* Python truthiness of an optional filter: None and "" are both false.
Truthy(f) == f # None /\ f[1] # NoStr

\* WHERE 1=1 [AND dpto = %s] [AND provincia = %s] [AND distrito = %s]
LocationRows(table, f) ==
    { row \in table :
        /\ Truthy(f.dpto) => row.dpto = f.dpto[1]
        /\ Truthy(f.provincia) => row.provincia = f.provincia[1]
        /\ Truthy(f.distrito) => row.distrito = f.distrito[1] }

\* ORDER BY apellidos, nombres
BySurname(x, y) ==
    \/ StrLess(x.apellidos, y.apellidos)
    \/ x.apellidos = y.apellidos /\ StrLess(x.nombres, y.nombres)

\* MySQLAgricultorRepository.find_by_location: the sequences the call can
\* return (rows that tie on the sort key come in any order).
find_by_location(table, f) ==
    LET rows == LocationRows(table, f)
        n == Cardinality(rows)
        orders == { g \in [1..n -> rows] :
                      /\ \A i \in 1..n, j \in 1..n : i # j => g[i] # g[j]
                      /\ \A i \in 1..n, j \in 1..n : i < j => ~BySurname(g[j], g[i]) }
    IN  { [i \in 1..Len(Page(g, LocationLimit, 0)) |->
              map_to_entity("mysql", Page(g, LocationLimit, 0)[i])] : g \in orders }

\* The outcomes of one port call on an adapter's table.
PortCall(ad, c, table) ==
    IF c.name \notin Provides(ad)
    THEN {After(table, Exc("TypeError"))}
    ELSE CASE c.name = "find_by_dni" -> {After(table, Ret(find_by_dni(ad, table, c.arg)))}
           [] c.name = "exists_by_dni" -> {After(table, Ret(exists_by_dni(table, c.arg)))}
           [] c.name = "count_all" -> {After(table, Ret(Cardinality(table)))}
           [] c.name = "delete_by_dni" -> {delete_by_dni(ad, table, c.arg)}
           [] c.name = "save" ->
                {WroteRecord(IF ad = "mysql" THEN mysql_save(table, c.arg)
                             ELSE postgresql_save(table, c.arg), c.arg)}
           [] c.name = "update" ->
                {WroteRecord(IF ad = "mysql" THEN mysql_update(table, c.arg)
                             ELSE postgresql_update_checked(table, c.arg), c.arg)}
           [] c.name = "find_all" ->
                {After(table, Ret(p)) : p \in find_all(ad, table, c.arg.limit, c.arg.offset)}
           [] c.name = "find_by_location" ->
                {After(table, Ret(p)) : p \in find_by_location(table, c.arg)}

\* Records and rows of this specification: three farmers, one of them with
\* no location recorded (the dataclass default "").
Farmer1 == Agricultor(Dni1, DatosA)
Farmer1B == Agricultor(Dni1, DatosB)
Farmer2 == [Agricultor(Dni2, DatosB) EXCEPT !.provincia = Eva]
Farmer3 == [Agricultor(Dni3, DatosB) EXCEPT !.dpto = NoStr, !.provincia = NoStr, !.distrito = NoStr]
PortRecords == {Farmer1, Farmer1B, Farmer2, Farmer3}
PortDnis == {Farmer1.dni, Farmer2.dni, Farmer3.dni}
PortTables == SUBSET {InsertRow("mysql", Farmer1), InsertRow("mysql", Farmer2), InsertRow("mysql", Farmer3)}

\* Location filters: absent, empty, a department / province / district.
PortFilters ==
    [dpto : {None, Some(NoStr), Some(Ica)}, provincia : {None, Some(Ica), Some(Eva)},
     distrito : {None, Some(Ica)}]

\* The calls a caller of the port makes.
PortCalls ==
    {[name |-> m, arg |-> d] : m \in {"find_by_dni", "exists_by_dni", "delete_by_dni"}, d \in PortDnis}
      \cup {[name |-> m, arg |-> a] : m \in {"save", "update"}, a \in PortRecords}
      \cup {[name |-> "count_all", arg |-> NoRec]}
      \cup {[name |-> "find_all", arg |-> [limit |-> l, offset |-> 0]] : l \in 1..MaxLimit}
      \cup {[name |-> "find_by_location", arg |-> f] : f \in PortFilters}

RepoInit ==
    /\ adapter = "mysql"
    /\ store = {}
    /\ SlotsIdle
    /\ AcqIdle
    /\ PoolIdle
    /\ EntIdle
    /\ NormIdle
    /\ ListIdle
    /\ ConnIdle
    /\ ValidIdle
    /\ AgeIdle
    /\ rcall = [name |-> "none", n |-> 0]
    /\ \E t \in PortTables :
          /\ rpre = [my |-> t, pg |-> t]
          /\ my = [table |-> t, ret |-> [exc |-> "pending"]]
          /\ pg = [table |-> t, ret |-> [exc |-> "pending"]]

\* One call of the port, made to the MySQL adapter and to the PostgreSQL
\* adapter.
Call(c) ==
    /\ rcall.n < MaxPortCalls
    /\ rcall' = [name |-> c.name, arg |-> c.arg, n |-> rcall.n + 1]
    /\ rpre' = [my |-> my.table, pg |-> pg.table]
    /\ my' \in PortCall("mysql", c, my.table)
    /\ pg' \in PortCall("postgresql", c, pg.table)
    /\ UNCHANGED <<reqvars, normvars, listvars, connvars, validvars, agevars, entvars, poolvars, acqvars>>

RepoNext == \E c \in PortCalls : Call(c)

SpecRepo == RepoInit /\ [][RepoNext]_vars

\* ------------------------------------------------------------------------
\* Specification of the derived properties of one Agricultor object
\* ------------------------------------------------------------------------

\* cultivos_list
Cultivos == {"esparrago", "granada", "maiz", "palta", "papa", "pecano", "vid", "castaña"}

\* The fields ubicacion_completa reads, in the order it lists them.
UbicacionFields == <<"dpto", "provincia", "distrito", "centro_poblado">>

\* Values of a crop field: None, a str, an int or float.
NoValor == [kind |-> "none"]
StrValor(t) == [kind |-> "str", text |-> t]
NumValor(f) == [kind |-> "num", num |-> f]

\* str.upper() of one character.
UpperChar(c) ==
    CASE c = "s" -> "S" [] c = "i" -> "I" [] c = "í" -> "Í" [] c = "n" -> "N" [] c = "o" -> "O"
      [] OTHER -> c

\* str.upper()
upper(s) == [i \in 1..Len(s) |-> UpperChar(s[i])]

\* ["SÍ", "SI", "S"]
Afirmativos == {<<"S", "Í">>, <<"S", "I">>, <<"S">>}

\* A test that takes every non-blank text for an affirmative.
CultivoActivoAnyText(valor) ==
    \/ valor.kind = "str" /\ strip(valor.text) # NoStr
    \/ valor.kind = "num" /\ Gt(valor.num, 0)

\* The test cultivos_activos applies to one value.
CultivoActivo(valor) ==
    \/ valor.kind = "str" /\ strip(valor.text) # NoStr /\ upper(valor.text) \in Afirmativos
    \/ valor.kind = "num" /\ Gt(valor.num, 0)

\* Agricultor.cultivos_activos: the dict of the active crops and their values.
cultivos_activos(a) ==
    [c \in {x \in Cultivos : CultivoActivo(a[x])} |-> a[c]]

\* ", ".join(parts)
RECURSIVE join(_)
join(parts) ==
    IF Len(parts) = 0 THEN NoStr
    ELSE IF Len(parts) = 1 THEN parts[1]
    ELSE parts[1] \o <<",", " ">> \o join(Tail(parts))

\* filter(None, parts): the parts that are neither None nor "".
RECURSIVE filter(_)
filter(parts) ==
    IF Len(parts) = 0 THEN <<>>
    ELSE IF parts[1] = None \/ parts[1] = Some(NoStr) THEN filter(Tail(parts))
    ELSE <<parts[1][1]>> \o filter(Tail(parts))

\* Agricultor.ubicacion_completa
ubicacion_completa(a) ==
    LET ubicacion_parts == <<a.dpto, a.provincia, a.distrito>>
        parts == IF a.centro_poblado # None /\ a.centro_poblado # Some(NoStr)
                 THEN Append(ubicacion_parts, a.centro_poblado)
                 ELSE ubicacion_parts
    IN  join(filter(parts))

Lima == <<"L", "i", "m", "a">>
Supe == <<"S", "u", "p", "e">>
Barranca == <<"B", "a", "r", "r", "a", "n", "c", "a">>
Caral == <<"C", "a", "r", "a", "l">>

\* Largest number in a crop field.
MaxCrop == 2

\* Values a crop field takes.
CultivoTexts ==
    {<<"S", "Í">>, <<"s", "í">>, <<"S", "I">>, <<"S", "i">>, <<"s">>, <<" ", "S", "I">>,
     <<"N", "O">>, <<"n", "o">>, NoStr, <<" ">>, <<"X">>}
CultivoValues ==
    {NoValor} \cup {StrValor(t) : t \in CultivoTexts}
      \cup {NumValor(NaN)} \cup {NumValor(Float(x)) : x \in (0 - 1)..MaxCrop}

\* Values a location field takes: None, "", a name.
UbicacionValues(f) ==
    {None, Some(NoStr)} \cup
      {Some(CASE f = "dpto" -> Lima [] f = "provincia" -> Barranca [] f = "distrito" -> Supe
              [] OTHER -> Caral)}

\* An object with no crop and no location.
AgVacio ==
    [f \in Cultivos \cup {"dpto", "provincia", "distrito", "centro_poblado"} |->
        IF f \in Cultivos THEN NoValor
        ELSE IF f = "centro_poblado" THEN None ELSE Some(NoStr)]

\* esparrago="SÍ", maiz="NO", papa>0; Lima, Barranca, Supe, no populated centre.
AgEjemplo ==
    [AgVacio EXCEPT !.esparrago = StrValor(<<"S", "Í">>), !.maiz = StrValor(<<"N", "O">>),
                    !.papa = NumValor(Float(MaxCrop)),
                    !.dpto = Some(Lima), !.provincia = Some(Barranca), !.distrito = Some(Supe)]

\* Objects whose crops are read: any two crop fields take any value.
CultivoInputs ==
    {AgEjemplo} \cup
    { [AgVacio EXCEPT ![c1] = v1, ![c2] = v2] :
        c1 \in Cultivos, c2 \in Cultivos, v1 \in CultivoValues, v2 \in CultivoValues }

CultivosInit ==
    /\ adapter = "mysql"
    /\ store = {}
    /\ SlotsIdle
    /\ AcqIdle
    /\ PoolIdle
    /\ NormIdle
    /\ ListIdle
    /\ ConnIdle
    /\ ValidIdle
    /\ AgeIdle
    /\ RepoIdle
    /\ ag \in CultivoInputs
    /\ leido = [prop |-> "none"]

\* agricultor.cultivos_activos
ReadCultivosActivos ==
    /\ leido.prop = "none"
    /\ leido' = [prop |-> "cultivos_activos", of |-> ag, val |-> cultivos_activos(ag)]
    /\ UNCHANGED <<ag, reqvars, normvars, listvars, connvars, validvars, agevars, repovars, poolvars, acqvars>>

CultivosNext == ReadCultivosActivos

SpecCultivos == CultivosInit /\ [][CultivosNext]_vars

UbicacionInit ==
    /\ adapter = "mysql"
    /\ store = {}
    /\ SlotsIdle
    /\ AcqIdle
    /\ PoolIdle
    /\ NormIdle
    /\ ListIdle
    /\ ConnIdle
    /\ ValidIdle
    /\ AgeIdle
    /\ RepoIdle
    /\ ag \in {AgVacio, AgEjemplo}
    /\ leido = [prop |-> "none"]

\* agricultor.<field> = v: the dataclass is not frozen.
SetUbicacion(f, v) ==
    /\ ag' = [ag EXCEPT ![f] = v]
    /\ UNCHANGED <<leido, reqvars, normvars, listvars, connvars, validvars, agevars, repovars, poolvars, acqvars>>

\* A property that keeps the value of its first read.
ReadUbicacionCompletaCached ==
    /\ leido' = [prop |-> "ubicacion_completa", of |-> ag,
                  val |-> IF leido.prop = "ubicacion_completa" THEN leido.val
                          ELSE ubicacion_completa(ag)]
    /\ UNCHANGED <<ag, reqvars, normvars, listvars, connvars, validvars, agevars, repovars, poolvars, acqvars>>

\* agricultor.ubicacion_completa: the object read (history) and the value.
ReadUbicacionCompleta ==
    /\ leido' = [prop |-> "ubicacion_completa", of |-> ag, val |-> ubicacion_completa(ag)]
    /\ UNCHANGED <<ag, reqvars, normvars, listvars, connvars, validvars, agevars, repovars, poolvars, acqvars>>

UbicacionNext ==
    \/ \E i \in 1..Len(UbicacionFields) :
          \E v \in UbicacionValues(UbicacionFields[i]) : SetUbicacion(UbicacionFields[i], v)
    \/ ReadUbicacionCompleta

SpecUbicacion == UbicacionInit /\ [][UbicacionNext]_vars

\* ------------------------------------------------------------------------
\* Specification of the pool singleton: concurrent get_db_pool calls and
\* close_db_pool calls
\* ------------------------------------------------------------------------

\* get_db_pool and close_db_pool calls started in one run.
MaxPoolCalls == 4

\* Tasks that call get_db_pool.
Callers == {"g1", "g2"}

\* What get_db_pool returned: the pool and the state it was in.
NoPool == [pool |-> 0, state |-> "none", exc |-> "none"]
Returned_pool(p, st) == [pool |-> p, state |-> st, exc |-> "none"]

\* aiomysql.Pool: closed is False until wait_closed() has finished; after
\* close() the pool is closing and acquire() raises RuntimeError.
PoolClosed(p) == pools[p] = "closed"

PoolInit ==
    /\ adapter = "mysql"
    /\ store = {}
    /\ SlotsIdle
    /\ AcqIdle
    /\ NormIdle
    /\ ListIdle
    /\ ConnIdle
    /\ ValidIdle
    /\ AgeIdle
    /\ RepoIdle
    /\ EntIdle
    /\ gpool = 0
    /\ pools = <<>>
    /\ lock = "none"
    /\ gpc = [c \in Callers |-> "idle"]
    /\ got = [c \in Callers |-> NoPool]
    /\ kpc = "idle"
    /\ kpool = 0
    /\ gcalls = 0

PoolFrame == UNCHANGED <<reqvars, normvars, listvars, connvars, validvars, agevars, repovars, entvars, acqvars>>

\* get_db_pool up to its first suspension: the lock is taken (the caller
\* waits while another holds it), the global is tested, and either the pool
\* is returned or create_pool is awaited with the lock held.
GetDbPool(c) ==
    /\ gpc[c] \in {"idle", "done"}
    /\ gcalls < MaxPoolCalls
    /\ gcalls' = gcalls + 1
    /\ lock = "none"
    /\ IF gpool = 0 \/ PoolClosed(gpool)
       THEN /\ lock' = c
            /\ gpc' = [gpc EXCEPT ![c] = "create_pool"]
            /\ got' = [got EXCEPT ![c] = NoPool]
       ELSE /\ lock' = "none"
            /\ gpc' = [gpc EXCEPT ![c] = "done"]
            /\ got' = [got EXCEPT ![c] = Returned_pool(gpool, pools[gpool])]
    /\ UNCHANGED <<gpool, pools, kpc, kpool>>
    /\ PoolFrame

\* await aiomysql.create_pool(...) returns: the global is assigned, the lock
\* released and the pool returned.
CreatePool(c) ==
    /\ gpc[c] = "create_pool"
    /\ pools' = Append(pools, "open")
    /\ gpool' = Len(pools) + 1
    /\ lock' = "none"
    /\ gpc' = [gpc EXCEPT ![c] = "done"]
    /\ got' = [got EXCEPT ![c] = Returned_pool(Len(pools) + 1, "open")]
    /\ UNCHANGED <<kpc, kpool, gcalls>>
    /\ PoolFrame

\* await aiomysql.create_pool(...) raises: DatabaseConnectionException.
CreatePoolFails(c) ==
    /\ gpc[c] = "create_pool"
    /\ lock' = "none"
    /\ gpc' = [gpc EXCEPT ![c] = "done"]
    /\ got' = [got EXCEPT ![c] = [NoPool EXCEPT !.exc = "DatabaseConnectionException"]]
    /\ UNCHANGED <<gpool, pools, kpc, kpool, gcalls>>
    /\ PoolFrame

\* close_db_pool up to its first suspension: close() marks the pool as
\* closing; wait_closed() finishes at once when no connection is in use,
\* and otherwise suspends until the connections in use are released.
CloseDbPool ==
    /\ kpc \in {"idle", "done"}
    /\ gcalls < MaxPoolCalls
    /\ gcalls' = gcalls + 1
    /\ IF gpool # 0 /\ ~PoolClosed(gpool)
       THEN \/ /\ pools' = [pools EXCEPT ![gpool] = "closed"]
               /\ gpool' = 0
               /\ kpc' = "done"
               /\ UNCHANGED kpool
            \/ /\ pools' = [pools EXCEPT ![gpool] = "closing"]
               /\ kpool' = gpool
               /\ kpc' = "wait_closed"
               /\ UNCHANGED gpool
       ELSE /\ kpc' = "done"
            /\ UNCHANGED <<gpool, pools, kpool>>
    /\ UNCHANGED <<lock, gpc, got>>
    /\ PoolFrame

\* wait_closed() returns; finally: _connection_pool = None
WaitClosed ==
    /\ kpc = "wait_closed"
    /\ pools' = [pools EXCEPT ![kpool] = "closed"]
    /\ gpool' = 0
    /\ kpc' = "done"
    /\ UNCHANGED <<kpool, lock, gpc, got, gcalls>>
    /\ PoolFrame

PoolNext ==
    \/ \E c \in Callers : GetDbPool(c) \/ CreatePool(c) \/ CreatePoolFails(c)
    \/ CloseDbPool
    \/ WaitClosed

SpecPool == PoolInit /\ [][PoolNext]_vars

\* ------------------------------------------------------------------------
\* Specification of connection acquisition: concurrent repository operations
\* over a pool of PoolSize connections
\* ------------------------------------------------------------------------

\* Connections of the pool (maxsize, scaled down).
PoolSize == 2

\* Repository operations started in one run.
MaxOps == 4

\* Concurrent tasks running repository operations.
Tasks == {"t1", "t2", "t3"}

\* The operations and, for each, the awaits it passes through in order:
\* "acquire" waits for a pooled connection, "query" runs a statement on the
\* connection acquired last, "release" returns that connection.
\*   PostgreSQL update: async with acquire() { await self.exists_by_dni()
\*     { async with acquire() { fetchval } } ; execute }
\*   PostgreSQL exists_by_dni: async with acquire() { fetchval }
\*   MySQL save: await find_by_dni() { acquire; execute; release } then
\*     await update()/create() { acquire; execute; release }
Program(kind) ==
    CASE kind = "postgresql.update" ->
           <<"acquire", "acquire", "query", "release", "query", "release">>
      [] kind = "postgresql.exists_by_dni" ->
           <<"acquire", "query", "release">>
      [] kind = "mysql.save" ->
           <<"acquire", "query", "release", "acquire", "query", "release">>

OpKinds == {"postgresql.update", "postgresql.exists_by_dni", "mysql.save"}

\* The await a task is at (opc counts the awaits passed).
AtStep(t) ==
    IF okind[t] \in OpKinds /\ opc[t] < Len(Program(okind[t]))
    THEN Program(okind[t])[opc[t] + 1]
    ELSE "done"

AcqInit ==
    /\ adapter = "mysql"
    /\ store = {}
    /\ SlotsIdle
    /\ NormIdle
    /\ ListIdle
    /\ ConnIdle
    /\ ValidIdle
    /\ AgeIdle
    /\ RepoIdle
    /\ EntIdle
    /\ PoolIdle
    /\ pfree = PoolSize
    /\ okind = [t \in Tasks |-> "none"]
    /\ opc = [t \in Tasks |-> 0]
    /\ oheld = [t \in Tasks |-> 0]
    /\ ostarted = 0

AcqFrame == UNCHANGED <<reqvars, normvars, listvars, connvars, validvars, agevars, repovars, entvars, poolvars>>

\* A task calls a repository operation.
StartOp(t, kind) ==
    /\ AtStep(t) = "done"
    /\ ostarted < MaxOps
    /\ ostarted' = ostarted + 1
    /\ okind' = [okind EXCEPT ![t] = kind]
    /\ opc' = [opc EXCEPT ![t] = 0]
    /\ UNCHANGED <<pfree, oheld>>
    /\ AcqFrame

\* pool.acquire() returns a free connection; the task waits while none is.
Acquire(t) ==
    /\ AtStep(t) = "acquire"
    /\ pfree > 0
    /\ pfree' = pfree - 1
    /\ oheld' = [oheld EXCEPT ![t] = @ + 1]
    /\ opc' = [opc EXCEPT ![t] = @ + 1]
    /\ UNCHANGED <<okind, ostarted>>
    /\ AcqFrame

\* The store answers the statement.
Query(t) ==
    /\ AtStep(t) = "query"
    /\ opc' = [opc EXCEPT ![t] = @ + 1]
    /\ UNCHANGED <<pfree, okind, oheld, ostarted>>
    /\ AcqFrame

\* The connection acquired last goes back to the pool.
Release(t) ==
    /\ AtStep(t) = "release"
    /\ pfree' = pfree + 1
    /\ oheld' = [oheld EXCEPT ![t] = @ - 1]
    /\ opc' = [opc EXCEPT ![t] = @ + 1]
    /\ UNCHANGED <<okind, ostarted>>
    /\ AcqFrame

AcqNext ==
    \E t \in Tasks :
        \/ \E kind \in OpKinds : StartOp(t, kind)
        \/ Acquire(t)
        \/ Query(t)
        \/ Release(t)

SpecAcq == AcqInit /\ [][AcqNext]_vars

\* ------------------------------------------------------------------------
\* Claims about the identifier validators (checked under SpecNorm)
\* ------------------------------------------------------------------------

\* The shape the specification gives an identifier: 8 characters, each 0-9.
EightAsciiDigits(s) == Len(s) = 8 /\ \A i \in 1..Len(s) : s[i] \in AsciiDigits

\* C4: for every input text, _validar_y_limpiar_dni either returns a string
\* of exactly 8 digits (0-9) or raises InvalidDNIException; it returns no
\* string of another shape.
C4_NormalizerShape ==
    svc.exc # "pending" =>
        \/ svc.exc = "InvalidDNIException"
        \/ svc.exc = "none" /\ EightAsciiDigits(svc.value)

\* The text the contract cleans the input to: surrounding whitespace
\* stripped, every hyphen and period removed.
Cleaned(s) == RemoveChar(RemoveChar(strip(s), "-"), ".")

\* C5: the normaliser returns the cleaned text c when c is exactly 8
\* characters, all digits (0-9); otherwise it raises InvalidDNIException
\* carrying the original input and a reason, and an input of the wrong length
\* is never reported as non-numeric (the length is checked first).
C5_NormalizerContract ==
    svc.exc # "pending" =>
        LET c == Cleaned(raw)
        IN  IF EightAsciiDigits(c)
            THEN svc.exc = "none" /\ svc.value = c
            ELSE /\ svc.exc = "InvalidDNIException"
                 /\ svc.dni = raw
                 /\ svc.reason \in {"vacio", "longitud", "no numerico"}
                 /\ Len(c) # 8 => svc.reason # "no numerico"

\* C6: entity construction and the service normaliser agree on every input
\* text: the constructor accepts it exactly when the normaliser does, and the
\* constructed record's dni is then the normaliser's output.
C6_SameNormalization ==
    (svc.exc # "pending" /\ ent.exc # "pending") =>
        /\ (ent.exc = "none") <=> (svc.exc = "none")
        /\ ent.exc = "none" => ent.value = svc.value

\* ------------------------------------------------------------------------
\* Claims about the request flows (checked under Spec)
\* ------------------------------------------------------------------------

Keys(table) == {row.dni : row \in table}

Done(r, o) == op[r] = o /\ pc[r] = "done"

\* Await points at which repository.update has the record.
UpdatePcs == {"act_update", "act_update_exists", "act_update_execute"}

\* C1: in an Update call whose path identifier is well formed, the record
\* handed to repository.update, and the record returned, carry the normalised
\* path identifier whatever identifier the payload carried; after a call that
\* ran alone the table has the same identifiers as before it (no row for the
\* payload's identifier appears, the addressed row is still there).
C1_UpdateKeepsIdentifier ==
    \A r \in Reqs :
        op[r] = "actualizar" =>
            LET n == validar_y_limpiar_dni(path[r])
            IN  /\ (pc[r] \in UpdatePcs \/ "update" \in invoked[r]) =>
                       n.exc = "none" /\ rec[r].dni = n.value
                /\ (pc[r] = "done" /\ result[r].exc = "none") =>
                       /\ result[r].ret.dni = n.value
                       /\ solo[r] => n.value \in Keys(store)
                /\ (pc[r] = "done" /\ solo[r]) => Keys(store) = Keys(pre[r])

\* C1 witness: an Update whose payload carried another identifier than the
\* path, and whose path text needed cleaning, has returned its record.
C1_Witness ==
    \E r \in Reqs :
        /\ Done(r, "actualizar")
        /\ result[r].exc = "none"
        /\ body[r].dni # result[r].ret.dni
        /\ path[r] # result[r].ret.dni
        /\ solo[r]

ValidBody(r) == validar_datos_agricultor(body[r]).exc = "none"

WriteMethods == {"save", "create", "update", "delete_by_dni"}

\* C2 as stated: a Create call that ran alone on a table that already had a
\* row with the record's identifier ends with the duplicate-identifier
\* error, invokes no save, and leaves the table as it was.
C2_DuplicateAlwaysSignalled ==
    \A r \in Reqs :
        (Done(r, "crear") /\ solo[r] /\ exists_by_dni(pre[r], body[r].dni)) =>
            /\ result[r] = Raise("AgricultorValidationException", "dni")
            /\ invoked[r] \cap WriteMethods = {}
            /\ store = pre[r]

\* C2 amended: the same, for a record that passes validar_datos_agricultor;
\* a record that fails it ends with that validation failure instead (the
\* validation comes first), with the table equally untouched.
C2_DuplicateRejected ==
    \A r \in Reqs :
        (Done(r, "crear") /\ solo[r] /\ exists_by_dni(pre[r], body[r].dni)) =>
            /\ result[r] = IF ValidBody(r)
                           THEN Raise("AgricultorValidationException", "dni")
                           ELSE validar_datos_agricultor(body[r])
            /\ invoked[r] \cap WriteMethods = {}
            /\ store = pre[r]

\* C2 witness: a Create of a valid record met an existing row and was rejected.
C2_Witness ==
    \E r \in Reqs :
        /\ Done(r, "crear") /\ solo[r] /\ ValidBody(r)
        /\ exists_by_dni(pre[r], body[r].dni)
        /\ SelectByDni(pre[r], body[r].dni) # {InsertRow(adapter, body[r])}
        /\ result[r] = Raise("AgricultorValidationException", "dni")

C3_ConcurrentCreateOneWinner ==
    \A r1 \in Reqs, r2 \in Reqs :
        ( /\ r1 # r2 /\ Done(r1, "crear") /\ Done(r2, "crear")
          /\ r2 \in ov[r1] /\ r1 \in ov[r2]
          /\ body[r1].dni = body[r2].dni /\ body[r1] # body[r2]
          /\ ValidBody(r1) /\ ValidBody(r2)
          /\ ~exists_by_dni(pre[r1], body[r1].dni)
          /\ ~exists_by_dni(pre[r2], body[r2].dni) ) =>
            /\ (result[r1].exc = "none") # (result[r2].exc = "none")
            /\ \A w \in {r1, r2} :
                   result[w].exc = "none" =>
                       SelectByDni(store, body[w].dni) = {InsertRow(adapter, body[w])}

\* C7: the table holds at most one row per identifier, and every row's
\* identifier is exactly 8 digits (0-9).
C7_OneRowPerEightDigitIdentifier ==
    /\ \A row \in store : EightAsciiDigits(row.dni)
    /\ \A x \in store, y \in store : x.dni = y.dni => x = y

\* Await points at which an adapter's UPDATE statement is about to execute.
UpdateStatementPcs == {"act_update", "save_update", "act_update_execute"}

\* C9: the UPDATE statement of repository.update changes no row of another
\* identifier, adds no row, and the call raises AgricultorNotFoundException
\* exactly when no row has the record's identifier as the statement executes.
C9_UpdateExactlyOneRow ==
    [][ \A r \in Reqs :
          (pc[r] \in UpdateStatementPcs /\ pc'[r] = "done") =>
              /\ \A row \in store : row.dni # rec[r].dni => row \in store'
              /\ \A row \in store' : row.dni # rec[r].dni => row \in store
              /\ Keys(store') \subseteq Keys(store)
              /\ (repo'[r] = "AgricultorNotFoundException")
                     <=> (SelectByDni(store, rec[r].dni) = {}) ]_vars

\* Await points at which repository.save is about to write.
SaveStatementPcs == {"save_create", "save_update", "save_insert"}

\* C10: the write of repository.save adds exactly one row, with the record's
\* identifier, when no row has it; when a row has it the table is left as it
\* is and a persistence error is raised.
C10_SaveOnlyInserts ==
    [][ \A r \in Reqs :
          (pc[r] \in SaveStatementPcs /\ pc'[r] = "done") =>
              IF SelectByDni(store, rec[r].dni) = {}
              THEN /\ store \subseteq store'
                   /\ Cardinality(store' \ store) = 1
                   /\ Keys(store' \ store) = {rec[r].dni}
                   /\ repo'[r] = "none"
              ELSE /\ store' = store
                   /\ repo'[r] \in {"RepositoryException", "DatabaseConnectionException"} ]_vars

\* C11: after a Create that ran alone on a table with no row for the record's
\* identifier and ended without error (repository.save succeeded),
\* find_by_dni of that identifier returns a record equal in every field to
\* the record written, on each adapter.
C11_RoundTrip ==
    \A r \in Reqs :
        (Done(r, "crear") /\ solo[r] /\ result[r].exc = "none"
           /\ ~exists_by_dni(pre[r], body[r].dni)) =>
            find_by_dni(adapter, store, body[r].dni) = {body[r]}

\* ------------------------------------------------------------------------
\* Claims about find_all (checked under SpecList)
\* ------------------------------------------------------------------------

\* C12: two successive find_all(limit, offset) calls with no write between
\* them return the same sequence, whatever the table holds (rows that tie on
\* the sort key included).
C12_ListingStable ==
    Len(listed) >= 2 => listed[1] = listed[2]

\* ------------------------------------------------------------------------
\* Claims about pooled connections and transactions (checked under SpecConn)
\* ------------------------------------------------------------------------

\* C13: when an operation has ended, on whichever exit path (return, absent
\* row, store error, cancellation), the connection it acquired has been
\* released exactly once and the number of checked-out connections is what
\* it was before the call.
C13_ConnectionReleased ==
    cpc = "done" =>
        /\ used = chist.used
        /\ conn.held => chist.releases = 1

\* C14: when create, update or delete_by_dni has ended by raising or by
\* being cancelled, the table holds none of its changes and no connection is
\* back in the pool with an open transaction.
C14_FailedWriteLeavesNothing ==
    (cpc = "done" /\ cop \in WriteOps /\ cres # "return") =>
        /\ store = chist.store
        /\ used = chist.used
        /\ ~(conn.held /\ ~conn.closed /\ conn.in_trans)

\* ------------------------------------------------------------------------
\* Claims about validar_datos_agricultor (checked under SpecValid)
\* ------------------------------------------------------------------------

\* A numeric field is absent or >= 0.
AbsentOrNonNegative(f) == f = None \/ (~f[1].nan /\ f[1].num >= 0)

\* The field of the first rule the record violates, in the order full name,
\* department, planted hectares, productivity per hectare; "none" when it
\* violates none.
FirstViolated(a) ==
    IF strip(a.nombre_completo) = <<>> THEN "nombre_completo"
    ELSE IF strip(a.dpto) = <<>> THEN "dpto"
    ELSE IF ~AbsentOrNonNegative(a.total_ha_sembrada) THEN "total_ha_sembrada"
    ELSE IF ~AbsentOrNonNegative(a.productividad_x_ha) THEN "productividad_x_ha"
    ELSE "none"

\* C15: validar_datos_agricultor accepts a record exactly when full name and
\* department are non-blank after trimming and planted hectares and
\* productivity are each absent or >= 0; otherwise it raises
\* AgricultorValidationException naming the first violated rule's field.
C15_ValidatorContract ==
    vres # Pending =>
        IF FirstViolated(vrec) = "none"
        THEN vres = Ok(NoRec)
        ELSE vres = Raise("AgricultorValidationException", FirstViolated(vrec))

\* ------------------------------------------------------------------------
\* Claims about what the use cases persist (checked under SpecApi)
\* ------------------------------------------------------------------------

\* The string fields the record requires.
RequiredStrings ==
    {"apellidos", "nombres", "nombre_completo", "sexo", "dpto", "provincia", "distrito"}

\* C16: no row of the table has a required string field (surname, given
\* names, full name, sex, department, province, district) that is empty or
\* blank: Create and Update never persist such a record.
C16_NoBlankRequiredPersisted ==
    \A row \in store : \A c \in RequiredStrings : strip(row[c]) # <<>>

\* ------------------------------------------------------------------------
\* Claims about the age check (checked under SpecAge)
\* ------------------------------------------------------------------------

\* A numeric text: after trimming, an optional minus sign and one or more
\* decimal digits.
Unsigned(t) == IF Len(t) > 0 /\ Head(t) = "-" THEN Tail(t) ELSE t
NumericText(t) ==
    /\ Len(Unsigned(strip(t))) > 0
    /\ \A i \in 1..Len(Unsigned(strip(t))) : Unsigned(strip(t))[i] \in AsciiDigits

\* The number a numeric text denotes.
TextValue(t) ==
    IF Unsigned(strip(t)) = strip(t) THEN int(strip(t)) ELSE 0 - int(Unsigned(strip(t)))

\* C17: a record whose age is a numeric text or a number is constructed
\* exactly when the value lies in [0, 120] ("0" and "120" accepted, "121" and
\* "-5" rejected); an absent age and free text such as "N/A" are accepted.
C17_AgeRange ==
    built # "pending" =>
        CASE edad.kind = "none" -> built = "ok"
          [] edad.kind = "num" ->
                (built = "ok" <=> (~edad.num.nan /\ edad.num.num \in 0..MaxEdad))
          [] edad.kind = "str" /\ NumericText(edad.text) ->
                (built = "ok" <=> TextValue(edad.text) \in 0..MaxEdad)
          [] OTHER -> built = "ok"

\* ------------------------------------------------------------------------
\* Claims about the errors the use cases signal (checked under Spec)
\* ------------------------------------------------------------------------

\* C18: an error raised by the repository beneath Update reaches the caller
\* as the same kind: AgricultorNotFoundException from repository.update is
\* signalled as AgricultorNotFoundException, never as
\* AgricultorValidationException.
C18_ErrorKindPreserved ==
    \A r \in Reqs :
        (Done(r, "actualizar") /\ repo[r] # "none") => result[r].exc = repo[r]

\* ------------------------------------------------------------------------
\* Claims about identifiers in requests (checked under SpecApi)
\* ------------------------------------------------------------------------

\* The identifier text is 8 digits (0-9) after normalisation.
WellFormed(s) == EightAsciiDigits(Cleaned(s))

\* C19: every request that carries an identifier (in the path, or in the body
\* of a Create) that is not 8 digits after normalisation ends with
\* InvalidDNIException and the bad-request status 400, never with a server
\* error or another kind of error.
C19_InvalidIdentifierBadRequest ==
    \A r \in Reqs :
        (pc[r] = "done" /\ path[r] # NoStr /\ ~WellFormed(path[r])) =>
            /\ result[r].exc = "InvalidDNIException"
            /\ HttpStatus(op[r], result[r]) = 400

\* The step that ends a Read call of slot r.
ReadEnds(r) == pc[r] # "done" /\ pc'[r] = "done" /\ op'[r] = "consultar"

\* C20: a Read with identifier text s returns the stored row keyed
\* normalize(s) when there is one, raises AgricultorNotFoundException when s
\* is well-formed and there is none, raises InvalidDNIException without
\* invoking the repository when s is malformed, and leaves the table as it is.
C20_ReadContract ==
    [][\A r \in Reqs :
          ReadEnds(r) =>
              /\ store' = store
              /\ IF ~WellFormed(path'[r])
                 THEN result'[r].exc = "InvalidDNIException" /\ invoked'[r] = {}
                 ELSE IF SelectByDni(store, Cleaned(path'[r])) = {}
                 THEN result'[r].exc = "AgricultorNotFoundException"
                 ELSE /\ result'[r].exc = "none"
                      /\ result'[r].ret \in SelectByDni(store, Cleaned(path'[r]))]_vars

\* ------------------------------------------------------------------------
\* Claims about the repository port (checked under SpecRepo)
\* ------------------------------------------------------------------------

\* The delete_by_dni contract on one adapter: before is the table before the
\* call, x the adapter's table and return value after it.
DeleteContract(before, x, dni) ==
    /\ x.ret.exc = "none"
    /\ x.ret.val = (\E row \in before : row.dni = dni)
    /\ x.table = {row \in before : row.dni # dni}
    /\ ~exists_by_dni(x.table, dni)

\* C21: delete_by_dni(id) returns true exactly when a row with that
\* identifier existed and was removed, returns false and changes nothing when
\* none existed; afterwards exists(id) is false and find_by_dni(id) is absent,
\* and every other row is unchanged. On each adapter.
C21_DeleteContract ==
    rcall.name = "delete_by_dni" =>
        /\ DeleteContract(rpre.my, my, rcall.arg)
        /\ DeleteContract(rpre.pg, pg, rcall.arg)
        /\ find_by_dni("mysql", my.table, rcall.arg) = {}
        /\ find_by_dni("postgresql", pg.table, rcall.arg) = {}

\* A delete removed a row and left another row in the table.
C21_Witness ==
    /\ rcall.name = "delete_by_dni"
    /\ my.ret.exc = "none" /\ my.ret.val
    /\ pg.ret.exc = "none" /\ pg.ret.val
    /\ my.table # {} /\ my.table # rpre.my

\* The rows that match every supplied filter: an absent filter constrains
\* nothing, a supplied one selects the rows with that value.
Matching(table, f) ==
    { row \in table :
        /\ f.dpto # None => row.dpto = f.dpto[1]
        /\ f.provincia # None => row.provincia = f.provincia[1]
        /\ f.distrito # None => row.distrito = f.distrito[1] }

\* The elements of a sequence.
Range(q) == {q[i] : i \in 1..Len(q)}

\* C22: find_by_location(dpto, provincia, distrito) returns exactly the rows
\* that match every supplied filter, treats an absent filter as unconstrained
\* (all three absent selects every row), and returns no more rows than the
\* statement's LIMIT.
C22_LocationFilters ==
    rcall.name = "find_by_location" =>
        /\ my.ret.exc = "none"
        /\ Len(my.ret.val) <= LocationLimit
        /\ Cardinality(Range(my.ret.val)) = Len(my.ret.val)
        /\ Range(my.ret.val) \subseteq Matching(rpre.my, rcall.arg)
        /\ Cardinality(Matching(rpre.my, rcall.arg)) <= LocationLimit =>
              Range(my.ret.val) = Matching(rpre.my, rcall.arg)

\* Two tables hold equivalent contents: the same rows, compared on the
\* columns both adapters store.
CommonColumns == Columns("mysql") \cap Columns("postgresql")
Project(row) == [c \in CommonColumns |-> row[c]]
EquivalentTables(t1, t2) == {Project(row) : row \in t1} = {Project(row) : row \in t2}

\* C30: the two adapters are interchangeable: each provides every port
\* operation, and after every sequence of port calls started from the same
\* table contents the last call has ended the same way on both (both
\* returned, or both raised the same kind of error) and the two tables are
\* equivalent.
C30_AdaptersInterchangeable ==
    /\ \A ad \in Adapters : Provides(ad) = PortOperations
    /\ rcall.n > 0 =>
          /\ my.ret.exc = pg.ret.exc
          /\ EquivalentTables(my.table, pg.table)

\* ------------------------------------------------------------------------
\* Claims about the derived properties (checked under SpecCultivos and
\* SpecUbicacion)
\* ------------------------------------------------------------------------

LowerChar(c) ==
    CASE c = "S" -> "s" [] c = "I" -> "i" [] c = "Í" -> "í" [] c = "N" -> "n" [] c = "O" -> "o"
      [] OTHER -> c

\* Two texts are equal ignoring case.
EqualIgnoringCase(a, b) ==
    Len(a) = Len(b) /\ \A i \in 1..Len(a) : LowerChar(a[i]) = LowerChar(b[i])

\* The rule for one crop value: an affirmative token ignoring case, or a
\* number strictly greater than zero.
Affirmative(v) ==
    \/ v.kind = "str" /\ \E t \in {<<"s", "í">>, <<"s", "i">>, <<"s">>} : EqualIgnoringCase(v.text, t)
    \/ v.kind = "num" /\ ~v.num.nan /\ v.num.num > 0

\* C23: for every record and each of the 8 crop fields, the crop is a key of
\* cultivos_activos exactly when its value is a string equal, ignoring case,
\* to an affirmative token or a number strictly greater than zero; the record
\* with esparrago "SÍ", maiz "NO" and papa a positive number yields exactly
\* {esparrago, papa}.
C23_ActiveCrops ==
    leido.prop = "cultivos_activos" =>
        /\ \A c \in Cultivos : (c \in DOMAIN leido.val) <=> Affirmative(ag[c])
        /\ \A c \in DOMAIN leido.val : leido.val[c] = ag[c]
        /\ ag = AgEjemplo => DOMAIN leido.val = {"esparrago", "papa"}

\* The example record was read and gave esparrago and papa.
C23_Witness ==
    /\ leido.prop = "cultivos_activos"
    /\ ag = AgEjemplo
    /\ DOMAIN leido.val = {"esparrago", "papa"}

\* The parts of a location that are neither absent nor empty, in order.
Present(part) == part # None /\ part # Some(NoStr)
PresentParts(a) ==
    LET all == [i \in 1..Len(UbicacionFields) |-> a[UbicacionFields[i]]]
        kept == SelectSeq(all, Present)
    IN  [i \in 1..Len(kept) |-> kept[i][1]]

\* The texts of a sequence, each but the last followed by ", ".
RECURSIVE Separated(_)
Separated(q) ==
    IF q = <<>> THEN <<>>
    ELSE IF Len(q) = 1 THEN q[1]
    ELSE Separated(SubSeq(q, 1, Len(q) - 1)) \o <<",", " ">> \o q[Len(q)]

\* A text has no leading, trailing or doubled ", ".
NoStraySeparator(s) ==
    /\ Len(s) > 0 => s[1] # "," /\ s[Len(s)] # " "
    /\ \A i \in 1..Len(s) : s[i] = "," => (i + 2 <= Len(s) /\ s[i + 1] = " " /\ s[i + 2] # ",")

\* C24: ubicacion_completa is department, province, district and populated
\* centre joined by ", " in that order with every empty or absent part
\* omitted, with no leading, trailing or doubled separator; every read gives
\* the value of the fields as they are when it is read.
C24_FullLocation ==
    leido.prop = "ubicacion_completa" =>
        /\ leido.val = Separated(PresentParts(leido.of))
        /\ NoStraySeparator(leido.val)

\* The example object (Lima, Barranca, Supe, no populated centre) was read
\* after its province had been set to "": the read gave "Lima, Supe".
C24_Witness ==
    /\ leido.prop = "ubicacion_completa"
    /\ leido.of = ag
    /\ ag = [AgEjemplo EXCEPT !.provincia = Some(NoStr)]
    /\ leido.val = Lima \o <<",", " ">> \o Supe

\* ------------------------------------------------------------------------
\* Claims about concurrent deletes, repeated updates and failed writes
\* (checked under Spec)
\* ------------------------------------------------------------------------

\* C25: a delete request reports success only if it itself removed the row:
\* of two overlapping delete requests for the same identifier, whose row
\* existed when each started, not both report success; a delete request that
\* ran alone for an identifier with no row reports
\* AgricultorNotFoundException and leaves the table as it was.
C25_OneDeleteSucceeds ==
    \A r \in Reqs :
        /\ \A q \in Reqs \ {r} :
              (/\ Done(r, "eliminar") /\ Done(q, "eliminar")
               /\ q \in ov[r]
               /\ dni_limpio[r] # NoStr /\ dni_limpio[r] = dni_limpio[q]
               /\ exists_by_dni(pre[r], dni_limpio[r])
               /\ exists_by_dni(pre[q], dni_limpio[q]))
              => ~(result[r].exc = "none" /\ result[q].exc = "none")
        /\ (/\ Done(r, "eliminar") /\ solo[r] /\ dni_limpio[r] # NoStr
            /\ ~exists_by_dni(pre[r], dni_limpio[r]))
              => result[r].exc = "AgricultorNotFoundException"

\* C26: an Update call that ran alone on an existing identifier with a valid
\* payload whose values equal the stored ones (the second of two identical
\* Update calls) succeeds and returns the record: zero changed rows is not
\* reported as AgricultorNotFoundException or as any other error.
C26_UpdateIdempotent ==
    \A r \in Reqs :
        (/\ Done(r, "actualizar") /\ solo[r]
         /\ dni_limpio[r] # NoStr
         /\ exists_by_dni(pre[r], dni_limpio[r])
         /\ validar_datos_agricultor(rec[r]).exc = "none"
         /\ UpdateTable(adapter, pre[r], rec[r]) = pre[r])
        => /\ result[r].exc = "none"
           /\ result[r].ret = rec[r]

\* Kinds of error a Create or Update call ends with before it writes.
NoWriteErrors ==
    {"InvalidDNIException", "AgricultorValidationException", "AgricultorNotFoundException"}

\* C27: when a Create or Update call that ran alone ends with
\* InvalidDNIException, AgricultorValidationException (the duplicate
\* identifier error included) or AgricultorNotFoundException, it invoked no
\* repository write operation and the table is as it was before the call.
C27_FailedCallWritesNothing ==
    \A r \in Reqs :
        (/\ pc[r] = "done" /\ op[r] \in {"crear", "actualizar"}
         /\ result[r].exc \in NoWriteErrors)
        => /\ invoked[r] \cap WriteMethods = {}
           /\ (solo[r] /\ \A q \in Reqs \ {r} : pc[q] = "idle") => store = pre[r]

\* ------------------------------------------------------------------------
\* Claims about the pool singleton (checked under SpecPool)
\* ------------------------------------------------------------------------

\* C28: under every interleaving of get_db_pool calls with close_db_pool, at
\* most one pool is open at any time, get_db_pool never returns a pool that
\* has been closed (a pool on which close() was called accepts no acquire),
\* and every pool created is the one the global refers to or is closed.
C28_PoolSingleton ==
    /\ Cardinality({p \in 1..Len(pools) : pools[p] # "closed"}) <= 1
    /\ \A c \in DOMAIN got : got[c].pool # 0 => got[c].state = "open"
    /\ \A p \in 1..Len(pools) : p = gpool \/ pools[p] = "closed"

\* ------------------------------------------------------------------------
\* Claims about connection acquisition (checked under SpecAcq)
\* ------------------------------------------------------------------------

\* A task waits for a pooled connection.
Waiting(t) == AtStep(t) = "acquire"

\* C29: no repository operation waits for a pooled connection while it
\* holds one, and no state has every connection of the pool held by
\* operations that each wait for a further connection.
C29_NoNestedAcquire ==
    /\ \A t \in DOMAIN okind : Waiting(t) => oheld[t] = 0
    /\ ~(/\ DOMAIN okind # {}
         /\ pfree = 0
         /\ \A t \in DOMAIN okind : oheld[t] > 0 => Waiting(t))

====
